---- MODULE Spec2Model ----
(***************************************************************************)
(* A model of the batch indexer (src/rag/vectorstore.py), the cross-encoder *)
(* reranker (src/rag/reranker.py), the retriever (src/rag/retriever.py)    *)
(* and the question rewriting of the QA chain (src/rag/chain.py) of        *)
(* review-mind-rag.                                                        *)
(*                                                                         *)
(* Each subsystem has its own specification over the shared variables:     *)
(*   SpecIngest     the sequential ingestion methods of ReviewVectorStore  *)
(*   SpecAsync      add_documents_async: tasks, semaphore, executor        *)
(*   FairSpecAsync  SpecAsync with the event loop and the executor fair    *)
(*   SpecBatchSize  calculate_optimal_batch_size                           *)
(*   SpecRerank     KoreanReranker.rerank and rerank_with_scores           *)
(*   SpecFilter     ReviewRetriever._build_filter                          *)
(*   SpecRewrite    ReviewQAChain._build_contextual_query                  *)
(*   SpecSearch     ReviewRetriever.search and search_with_rerank, and     *)
(*                  ReviewQAChain.ask                                      *)
(*   SpecRetrieval  the rewriter called on its own or through ask, and the *)
(*                  retriever: SpecRewrite and SpecSearch together         *)
(*   SpecMetrics    precision_at_k, recall_at_k and the improvement        *)
(*                  figures of RetrievalEvaluator.compare                  *)
(*                  (src/analysis/metrics.py)                              *)
(*   SpecHandles    the lazily built Chroma handle of ReviewVectorStore    *)
(*                  and CrossEncoder model of KoreanReranker over a        *)
(*                  sequence of calls                                      *)
(* The variables of the subsystems a specification does not run stay at    *)
(* their idle values.                                                      *)
(***************************************************************************)
EXTENDS Integers, Sequences, FiniteSets, TLC

\* ------------------------------------------------------------------ bounds
MaxDocs == 3
MaxBatchSize == 3
MaxRetries == 2
MaxConcurrent == 2
MaxCandidates == 3
MaxTopN == 3
MaxHistory == 7
MaxK == 2
MaxFetchK == 3
MaxCalls == 4
MaxRetrieved == 3
MaxAtK == 4

\* ----------------------------------------------------------------- helpers
Min(a, b) == IF a <= b THEN a ELSE b

Max(a, b) == IF a >= b THEN a ELSE b

\* ceil(n / b) for n >= 0, b >= 1
CeilDiv(n, b) == (n + b - 1) \div b

RECURSIVE Flatten(_)
Flatten(ss) == IF ss = <<>> THEN <<>> ELSE Head(ss) \o Flatten(Tail(ss))

\* a Python slice s[lo:hi] of a list, for 0 <= lo and 0 <= hi
PySlice(s, lo, hi) == SubSeq(s, lo + 1, Min(hi, Len(s)))

\* ------------------------------------------------------------------- state
VARIABLES
    \* --- sequential ingestion (add_documents, _with_progress, _with_retry)
    op,             \* the method being run
    documents,      \* the documents argument
    batch_size,     \* the batch_size argument
    max_retries,    \* the max_retries argument (retry ingestion)
    pc,             \* "loop" | "returned" | "raised"
    i,              \* the loop variable of range(0, total, batch_size)
    added,          \* the local added
    retries,        \* the local retries of the batch at i
    total_retries,  \* the local total_retries
    indexWrites,    \* the batches the index accepted, in order
    attempts,       \* every index write issued: <<batch index, outcome>>
    callbacks,      \* the progress_callback calls: <<processed, total>>
    result,         \* the value returned
    error,          \* the exception raised
    \* --- concurrent ingestion (add_documents_async)
    max_concurrent, \* the max_concurrent argument
    batches,        \* the local batches
    semValue,       \* asyncio.Semaphore._value
    semWaiters,     \* asyncio.Semaphore._waiters, the tasks blocked in acquire
    taskState,      \* where each process_batch task is
    processed,      \* the nonlocal processed
    \* --- calculate_optimal_batch_size
    available_memory_mb,
    avg_doc_size_bytes,
    min_batch_size,
    max_batch_size,
    memory_usage_tenths,    \* memory_usage_ratio, in tenths
    \* --- KoreanReranker
    rerank_documents,   \* the documents argument of rerank
    model_scores,       \* what self.model.predict(pairs) returns for them
    score_threshold,    \* self.score_threshold
    self_top_n,         \* self.top_n
    top_n_arg,          \* the top_n argument: <<>> for None, <<n>> for n
    predict_calls,      \* the calls of self.model.predict
    metadata            \* each document's metadata: the keys rating and
                        \* rerank_score, each <<v>>, or <<>> when the key is absent

\* the filter arguments of a retriever call: <<>> is None, <<v>> a value
VARIABLES
    category,
    sentiment,
    product_id,
    min_rating,
    max_rating

\* the contextual query rewriter of the QA chain
VARIABLES
    question,           \* the user's question, a text
    chat_history,       \* the messages [role, content] of the conversation so far
    llm_outcome,        \* what llm.invoke does when called: raises, or its response
    llm_prompts         \* the prompts llm.invoke was called with, in order

\* a retrieval call: ReviewRetriever.search / search_with_rerank, ReviewQAChain.ask
VARIABLES
    k_arg,              \* the k argument: the number of documents asked for
    fetch_k,            \* the fetch_k argument: <<>> when omitted
    use_reranker,       \* the use_reranker argument: <<>> is None (ask only)
    use_hyde,           \* the use_hyde argument: <<>> is None
    use_mmr,            \* the use_mmr argument
    self_use_reranker,  \* ReviewQAChain.use_reranker
    self_use_hyde,      \* the receiver's use_hyde attribute
    reranker_attached,  \* whether the retriever's reranker attribute is set
    corpus_size,        \* how many documents of the index match the query and filter
    hyde_outcome,       \* what the HyDE expander's llm.invoke does when called
    hyde_calls,         \* the questions expand_query was called with
    index_calls,        \* the calls made on the vector store
    rerank_calls,       \* the calls made on the reranker
    rerankers_built     \* how many KoreanReranker() the retriever has constructed

\* the lazily built handles of one ReviewVectorStore and one KoreanReranker
VARIABLES
    vectorstore_handle, \* ReviewVectorStore._vectorstore: <<>> is None, <<h>> the Chroma h
    chroma_built,       \* how many Chroma objects were constructed so far
    handle_log,         \* per call on the vector store: its method and the Chroma it used
    model_name,         \* KoreanReranker.model_name
    loaded_model,       \* KoreanReranker._model: <<>> is None, <<m>> a CrossEncoder of m
    model_loads,        \* the CrossEncoder(...) constructions tried: the name and how it ended
    model_log           \* per rerank call: the model it scored with, or "raised"

\* the retrieval evaluator
VARIABLES
    retrieved_ids,      \* the ids retrieved for a query, best first
    relevant_ids,       \* the set of ids relevant to the query
    at_k,               \* the k of precision_at_k / recall_at_k
    baseline_eval,      \* mrr, hit_rate and ndcg of the baseline results, as fractions
    reranked_eval       \* mrr, hit_rate and ndcg of the reranked results

ingestVars == <<op, documents, batch_size, max_retries, pc, i, added, retries,
                total_retries, indexWrites, attempts, callbacks, result, error>>

asyncVars == <<max_concurrent, batches, semValue, semWaiters, taskState, processed>>

sizeVars == <<available_memory_mb, avg_doc_size_bytes, min_batch_size, max_batch_size,
              memory_usage_tenths>>

rerankVars == <<rerank_documents, model_scores, score_threshold, self_top_n, top_n_arg,
                predict_calls, metadata>>

filterVars == <<category, sentiment, product_id, min_rating, max_rating>>

rewriteVars == <<question, chat_history, llm_outcome, llm_prompts>>

searchVars == <<k_arg, fetch_k, use_reranker, use_hyde, use_mmr, self_use_reranker,
                self_use_hyde, reranker_attached, corpus_size, hyde_outcome, hyde_calls,
                index_calls, rerank_calls, rerankers_built>>

handleVars == <<vectorstore_handle, chroma_built, handle_log, model_name, loaded_model,
                model_loads, model_log>>

metricVars == <<retrieved_ids, relevant_ids, at_k, baseline_eval, reranked_eval>>

retrievalVars == <<filterVars, rewriteVars, searchVars, handleVars, metricVars>>

vars == <<ingestVars, asyncVars, sizeVars, rerankVars, retrievalVars>>

NoValue == [none |-> TRUE]

\* the exceptions an index write can raise
Excs == {"ConnectionError", "RateLimitError"}

\* what one index write does: it returns, or raises one of Excs
WriteOutcomes == {"ok"} \cup Excs

\* ------------------------------------------------- sequential ingestion
total == Len(documents)

\* documents[i:i + batch_size]
BatchAtShort(docs, at, bs) == PySlice(docs, at, at + bs - 1)
BatchAt(docs, at, bs) == PySlice(docs, at, at + bs)

\* the arguments of progress_callback(added, total) after a batch of b docs
CallbackArgsPerBatch(addedNow, b, tot) == <<Len(b), tot>>
CallbackArgs(addedNow, b, tot) == <<addedNow, tot>>

\* the dictionary add_documents_with_retry returns
RetryResultLastBatch(a, r, tr) == [success |-> TRUE, processed |-> a, retry_count |-> r]
RetryResult(a, r, tr) == [success |-> TRUE, processed |-> a, retry_count |-> tr]

\* if retries > max_retries: raise IndexingError(...) from e
RetriesExhaustedLate(r, mr) == r > mr + 1
RetriesExhausted(r, mr) == r > mr

\* IndexingError(f"배치 {i // batch_size}에서 최대 재시도 횟수 초과: {e}") from e
IndexingErrorOneBased(at, bs, e) ==
    [type |-> "IndexingError", batch |-> at \div bs + 1, text |-> e, cause |-> e]
IndexingError(at, bs, e) ==
    [type |-> "IndexingError", batch |-> at \div bs, text |-> e, cause |-> e]

\* the variables of add_documents_async while no such call runs
AsyncIdle ==
    /\ max_concurrent = 0
    /\ batches = <<>>
    /\ semValue = 0
    /\ semWaiters = <<>>
    /\ taskState = <<>>
    /\ processed = 0

\* the arguments of calculate_optimal_batch_size while no such call runs
SizeIdle ==
    /\ available_memory_mb = 0
    /\ avg_doc_size_bytes = 0
    /\ min_batch_size = 0
    /\ max_batch_size = 0
    /\ memory_usage_tenths = 0

\* the reranker's variables while no rerank call runs
RerankIdle ==
    /\ rerank_documents = <<>>
    /\ model_scores = <<>>
    /\ score_threshold = 0
    /\ self_top_n = 0
    /\ top_n_arg = <<>>
    /\ predict_calls = 0
    /\ metadata = <<>>

\* the filter arguments while no retriever call runs
FilterIdle ==
    /\ category = <<>>
    /\ sentiment = <<>>
    /\ product_id = <<>>
    /\ min_rating = <<>>
    /\ max_rating = <<>>

\* the rewriter's variables while no rewrite runs
RewriteIdle ==
    /\ question = <<>>
    /\ chat_history = <<>>
    /\ llm_outcome = [raises |-> FALSE, content |-> <<>>]
    /\ llm_prompts = <<>>

\* the variables of a retrieval call while none runs
SearchIdle ==
    /\ k_arg = 0
    /\ fetch_k = <<>>
    /\ use_reranker = <<>>
    /\ use_hyde = <<>>
    /\ use_mmr = FALSE
    /\ self_use_reranker = FALSE
    /\ self_use_hyde = FALSE
    /\ reranker_attached = FALSE
    /\ corpus_size = 0
    /\ hyde_outcome = [raises |-> FALSE, content |-> <<>>]
    /\ hyde_calls = <<>>
    /\ index_calls = <<>>
    /\ rerank_calls = <<>>
    /\ rerankers_built = 0

\* the handles while no sequence of calls on the owner objects is followed
HandleIdle ==
    /\ vectorstore_handle = <<>>
    /\ chroma_built = 0
    /\ handle_log = <<>>
    /\ model_name = ""
    /\ loaded_model = <<>>
    /\ model_loads = <<>>
    /\ model_log = <<>>

\* the evaluator's variables while no metric is computed
MetricIdle ==
    /\ retrieved_ids = <<>>
    /\ relevant_ids = {}
    /\ at_k = 0
    /\ baseline_eval = <<>>
    /\ reranked_eval = <<>>

RetrievalIdle == FilterIdle /\ RewriteIdle /\ SearchIdle /\ HandleIdle /\ MetricIdle

\* the locals of the ingestion methods while no such call runs
IngestIdle ==
    /\ documents = <<>> /\ batch_size = 1 /\ max_retries = 0
    /\ i = 0 /\ added = 0 /\ retries = 0 /\ total_retries = 0
    /\ indexWrites = <<>> /\ attempts = <<>> /\ callbacks = <<>>

IngestInit ==
    /\ op \in {"add_documents", "add_documents_with_progress", "add_documents_with_retry"}
    /\ \E n \in 0..MaxDocs : documents = [k \in 1..n |-> k]
    /\ batch_size \in 1..MaxBatchSize
    /\ max_retries \in IF op = "add_documents_with_retry" THEN -1..MaxRetries ELSE {0}
    /\ pc = "loop"
    /\ i = 0
    /\ added = 0
    /\ retries = 0
    /\ total_retries = 0
    /\ indexWrites = <<>>
    /\ attempts = <<>>
    /\ callbacks = <<>>
    /\ result = NoValue
    /\ error = NoValue
    /\ AsyncIdle
    /\ SizeIdle
    /\ RerankIdle
    /\ RetrievalIdle

\* one iteration of the loop of add_documents: the write raises (and the
\* exception leaves the method) or the batch is counted
AddDocumentsBatch ==
    /\ op = "add_documents" /\ pc = "loop" /\ i < total
    /\ \E out \in WriteOutcomes :
        LET batch == BatchAt(documents, i, batch_size) IN
        /\ attempts' = Append(attempts, <<i \div batch_size, out>>)
        /\ IF out = "ok"
           THEN /\ indexWrites' = Append(indexWrites, batch)
                /\ added' = added + Len(batch)
                /\ i' = i + batch_size
                /\ UNCHANGED <<pc, error>>
           ELSE /\ pc' = "raised"
                /\ error' = [type |-> out]
                /\ UNCHANGED <<indexWrites, added, i>>
    /\ UNCHANGED <<op, documents, batch_size, max_retries, retries, total_retries,
                   callbacks, result>>

AddDocumentsReturn ==
    /\ op = "add_documents" /\ pc = "loop" /\ i >= total
    /\ pc' = "returned"
    /\ result' = added
    /\ UNCHANGED <<op, documents, batch_size, max_retries, i, added, retries,
                   total_retries, indexWrites, attempts, callbacks, error>>

\* one iteration of the loop of add_documents_with_progress
ProgressBatch ==
    /\ op = "add_documents_with_progress" /\ pc = "loop" /\ i < total
    /\ \E out \in WriteOutcomes :
        LET batch == BatchAt(documents, i, batch_size) IN
        /\ attempts' = Append(attempts, <<i \div batch_size, out>>)
        /\ IF out = "ok"
           THEN /\ indexWrites' = Append(indexWrites, batch)
                /\ added' = added + Len(batch)
                /\ callbacks' = Append(callbacks,
                                       CallbackArgs(added + Len(batch), batch, total))
                /\ i' = i + batch_size
                /\ UNCHANGED <<pc, error>>
           ELSE /\ pc' = "raised"
                /\ error' = [type |-> out]
                /\ UNCHANGED <<indexWrites, added, callbacks, i>>
    /\ UNCHANGED <<op, documents, batch_size, max_retries, retries, total_retries,
                   result>>

ProgressReturn ==
    /\ op = "add_documents_with_progress" /\ pc = "loop" /\ i >= total
    /\ pc' = "returned"
    /\ result' = added
    /\ UNCHANGED <<op, documents, batch_size, max_retries, i, added, retries,
                   total_retries, indexWrites, attempts, callbacks, error>>

\* one pass of "while retries <= max_retries" for the batch at i: one write
RetryAttempt ==
    /\ op = "add_documents_with_retry" /\ pc = "loop" /\ i < total
    /\ retries <= max_retries
    /\ \E out \in WriteOutcomes :
        LET batch == BatchAt(documents, i, batch_size) IN
        /\ attempts' = Append(attempts, <<i \div batch_size, out>>)
        /\ IF out = "ok"
           THEN \* added += len(batch); break; a next batch starts at retries = 0
                /\ indexWrites' = Append(indexWrites, batch)
                /\ added' = added + Len(batch)
                /\ i' = i + batch_size
                /\ retries' = IF i + batch_size < total THEN 0 ELSE retries
                /\ UNCHANGED <<total_retries, pc, error>>
           ELSE /\ retries' = retries + 1
                /\ total_retries' = total_retries + 1
                /\ IF RetriesExhausted(retries + 1, max_retries)
                   THEN /\ pc' = "raised"
                        /\ error' = IndexingError(i, batch_size, out)
                   ELSE UNCHANGED <<pc, error>>    \* time.sleep(retry_delay)
                /\ UNCHANGED <<indexWrites, added, i>>
    /\ UNCHANGED <<op, documents, batch_size, max_retries, callbacks, result>>

\* the while loop ends without a break and without a raise: the for loop
\* goes on to the next batch
RetryNextBatch ==
    /\ op = "add_documents_with_retry" /\ pc = "loop" /\ i < total
    /\ retries > max_retries
    /\ i' = i + batch_size
    /\ retries' = IF i + batch_size < total THEN 0 ELSE retries
    /\ UNCHANGED <<op, documents, batch_size, max_retries, pc, added, total_retries,
                   indexWrites, attempts, callbacks, result, error>>

RetryReturn ==
    /\ op = "add_documents_with_retry" /\ pc = "loop" /\ i >= total
    /\ pc' = "returned"
    /\ result' = RetryResult(added, retries, total_retries)
    /\ UNCHANGED <<op, documents, batch_size, max_retries, i, added, retries,
                   total_retries, indexWrites, attempts, callbacks, error>>

IngestNext ==
    \/ AddDocumentsBatch /\ UNCHANGED <<asyncVars, sizeVars, rerankVars, retrievalVars>>
    \/ AddDocumentsReturn /\ UNCHANGED <<asyncVars, sizeVars, rerankVars, retrievalVars>>
    \/ ProgressBatch /\ UNCHANGED <<asyncVars, sizeVars, rerankVars, retrievalVars>>
    \/ ProgressReturn /\ UNCHANGED <<asyncVars, sizeVars, rerankVars, retrievalVars>>
    \/ RetryAttempt /\ UNCHANGED <<asyncVars, sizeVars, rerankVars, retrievalVars>>
    \/ RetryNextBatch /\ UNCHANGED <<asyncVars, sizeVars, rerankVars, retrievalVars>>
    \/ RetryReturn /\ UNCHANGED <<asyncVars, sizeVars, rerankVars, retrievalVars>>

SpecIngest == IngestInit /\ [][IngestNext]_vars

\* ------------------------------------------------- concurrent ingestion
\* [documents[i:i + batch_size] for i in range(0, total, batch_size)]
BatchesOf(docs, bs) ==
    [b \in 1..CeilDiv(Len(docs), bs) |-> BatchAt(docs, (b - 1) * bs, bs)]

Tasks == DOMAIN taskState

\* the tasks inside "async with semaphore": admitted and not yet released
Holding == {t \in Tasks : taskState[t] \in {"admitted", "writing", "written", "writeFailed"}}

\* Semaphore.acquire takes a slot at once when the semaphore is not locked
SemNotLockedLoose(value, waiters) == value >= 0
SemNotLocked(value, waiters) == value > 0 /\ waiters = <<>>

\* await asyncio.gather(*tasks) is over when every task has returned
GatherCompleteAny(ts) == \E t \in DOMAIN ts : ts[t] = "done"
GatherComplete(ts) == \A t \in DOMAIN ts : ts[t] = "done"

\* processed += len(batch)
ProcessedAfterOverwrite(p, b) == Len(b)
ProcessedAfter(p, b) == p + Len(b)

AsyncInit ==
    /\ op = "add_documents_async"
    /\ \E n \in 0..MaxDocs : documents = [k \in 1..n |-> k]
    /\ batch_size \in 1..MaxBatchSize
    /\ max_concurrent \in -1..MaxConcurrent
    /\ pc = "start"
    /\ max_retries = 0 /\ i = 0 /\ added = 0 /\ retries = 0 /\ total_retries = 0
    /\ indexWrites = <<>> /\ attempts = <<>> /\ callbacks = <<>>
    /\ result = NoValue /\ error = NoValue
    /\ batches = <<>>
    /\ semValue = 0
    /\ semWaiters = <<>>
    /\ taskState = <<>>
    /\ processed = 0
    /\ SizeIdle
    /\ RerankIdle
    /\ RetrievalIdle

asyncFrame == <<op, documents, batch_size, max_retries, i, added, retries,
                total_retries, callbacks, sizeVars, rerankVars,
                retrievalVars>>

\* the method up to its await: the batches, the semaphore (a negative value is
\* refused with ValueError), processed = 0, one task per batch handed to gather
AsyncGather ==
    /\ op = "add_documents_async" /\ pc = "start"
    /\ batches' = BatchesOf(documents, batch_size)
    /\ IF max_concurrent < 0
       THEN /\ pc' = "raised"
            /\ error' = [type |-> "ValueError"]
            /\ UNCHANGED <<semValue, taskState>>
       ELSE /\ pc' = "gather"
            /\ semValue' = max_concurrent
            /\ taskState' = [t \in DOMAIN batches' |-> "created"]
            /\ UNCHANGED error
    /\ UNCHANGED <<asyncFrame, indexWrites, attempts, result, semWaiters, processed,
                   max_concurrent>>

\* the event loop starts the tasks in the order gather created them; a task
\* runs to its first suspension: it waits for the semaphore, or takes a slot
\* and hands its write to the executor
TaskStart(t) ==
    /\ t \in Tasks /\ taskState[t] = "created"
    /\ \A u \in Tasks : u < t => taskState[u] # "created"
    /\ IF SemNotLocked(semValue, semWaiters)
       THEN /\ semValue' = semValue - 1
            /\ taskState' = [taskState EXCEPT ![t] = "writing"]
            /\ UNCHANGED semWaiters
       ELSE /\ semWaiters' = Append(semWaiters, t)
            /\ taskState' = [taskState EXCEPT ![t] = "waiting"]
            /\ UNCHANGED semValue
    /\ UNCHANGED <<asyncFrame, pc, indexWrites, attempts, result, error, batches,
                   processed, max_concurrent>>

\* a task woken by a release already owns its slot; it hands its write to the
\* executor
TaskSubmit(t) ==
    /\ t \in Tasks /\ taskState[t] = "admitted"
    /\ taskState' = [taskState EXCEPT ![t] = "writing"]
    /\ UNCHANGED <<asyncFrame, pc, indexWrites, attempts, result, error, batches,
                   semValue, semWaiters, processed, max_concurrent>>

\* the executor thread ends self.vectorstore.add_documents(batch)
WriteFinish(t) ==
    /\ t \in Tasks /\ taskState[t] = "writing"
    /\ \E out \in WriteOutcomes :
        /\ attempts' = Append(attempts, <<t - 1, out>>)
        /\ IF out = "ok"
           THEN /\ indexWrites' = Append(indexWrites, batches[t])
                /\ taskState' = [taskState EXCEPT ![t] = "written"]
           ELSE /\ taskState' = [taskState EXCEPT ![t] = "writeFailed"]
                /\ UNCHANGED indexWrites
    /\ UNCHANGED <<asyncFrame, pc, result, error, batches, semValue, semWaiters,
                   processed, max_concurrent>>

\* Semaphore.release: the slot goes to the first waiter, or back to the value
ReleaseOnSuccessOnly(t, endState) ==
    IF endState = "failed"
    THEN /\ taskState' = [taskState EXCEPT ![t] = endState]
         /\ UNCHANGED <<semValue, semWaiters>>
    ELSE IF semWaiters # <<>>
    THEN /\ taskState' = [taskState EXCEPT ![t] = endState,
                                           ![Head(semWaiters)] = "admitted"]
         /\ semWaiters' = Tail(semWaiters)
         /\ UNCHANGED semValue
    ELSE /\ taskState' = [taskState EXCEPT ![t] = endState]
         /\ semValue' = semValue + 1
         /\ UNCHANGED semWaiters
Release(t, endState) ==
    IF semWaiters # <<>>
    THEN /\ taskState' = [taskState EXCEPT ![t] = endState,
                                           ![Head(semWaiters)] = "admitted"]
         /\ semWaiters' = Tail(semWaiters)
         /\ UNCHANGED semValue
    ELSE /\ taskState' = [taskState EXCEPT ![t] = endState]
         /\ semValue' = semValue + 1
         /\ UNCHANGED semWaiters

\* the task resumes after its write: it counts the batch (or the exception of
\* the write leaves the task and reaches gather), and leaves the semaphore
TaskResume(t) ==
    /\ t \in Tasks /\ taskState[t] \in {"written", "writeFailed"}
    /\ IF taskState[t] = "written"
       THEN /\ processed' = ProcessedAfter(processed, batches[t])
            /\ Release(t, "done")
            /\ UNCHANGED error
       ELSE /\ Release(t, "failed")
            /\ error' = IF error = NoValue
                        THEN [type |-> attempts[CHOOSE k \in DOMAIN attempts :
                                                  attempts[k][1] = t - 1][2]]
                        ELSE error
            /\ UNCHANGED processed
    /\ UNCHANGED <<asyncFrame, pc, indexWrites, attempts, result, batches,
                   max_concurrent>>

\* gather is over: return {"success": True, "processed": processed}
GatherReturn ==
    /\ op = "add_documents_async" /\ pc = "gather"
    /\ GatherComplete(taskState)
    /\ pc' = "returned"
    /\ result' = [success |-> TRUE, processed |-> processed]
    /\ UNCHANGED <<asyncFrame, indexWrites, attempts, error, asyncVars>>

\* gather passes on the first exception of a task; the other tasks go on
GatherRaise ==
    /\ op = "add_documents_async" /\ pc = "gather"
    /\ error # NoValue
    /\ pc' = "raised"
    /\ UNCHANGED <<asyncFrame, indexWrites, attempts, result, error, asyncVars>>

AsyncNext ==
    \/ AsyncGather
    \/ \E t \in Tasks : TaskStart(t)
    \/ \E t \in Tasks : TaskSubmit(t)
    \/ \E t \in Tasks : WriteFinish(t)
    \/ \E t \in Tasks : TaskResume(t)
    \/ GatherReturn
    \/ GatherRaise

SpecAsync == AsyncInit /\ [][AsyncNext]_vars

\* the event loop runs every ready task and every executor write ends
FairSpecAsync == SpecAsync /\ WF_vars(AsyncNext)

\* ------------------------------------------- calculate_optimal_batch_size
\* the arguments the model runs the function on; memory_usage_ratio is a
\* number of tenths, and the quotient is computed exactly
MemoryValuesMb == {0, 1, 4, 64, 200}

DocSizeValues == {0, 1, 1000, 100000}

MinBatchValues == {1, 10, 500}

MaxBatchValues == {5, 500, 1000}

RatioTenthsValues == {0, 3, 10}

BytesPerMb == 1024 * 1024

\* max(avg_doc_size_bytes, 1)
DocSizeDivisorRaw(avg) == avg
DocSizeDivisor(avg) == Max(avg, 1)

\* int(usable_bytes / d) for usable_bytes = mb * 1024 * 1024 * (tenths / 10)
\* and d > 0: int() truncates, which is floor on a quotient >= 0
CalculatedSize(mb, tenths, d) == (mb * BytesPerMb * tenths) \div (10 * d)

\* max(min_batch_size, min(calculated_size, max_batch_size))
ClampNoFloor(c, lo, hi) == Min(c, hi)
Clamp(c, lo, hi) == Max(lo, Min(c, hi))

SizeInit ==
    /\ op = "calculate_optimal_batch_size"
    /\ pc = "start"
    /\ result = NoValue /\ error = NoValue
    /\ available_memory_mb \in MemoryValuesMb
    /\ avg_doc_size_bytes \in DocSizeValues
    /\ min_batch_size \in MinBatchValues
    /\ max_batch_size \in MaxBatchValues
    /\ memory_usage_tenths \in RatioTenthsValues
    /\ IngestIdle
    /\ AsyncIdle
    /\ RerankIdle
    /\ RetrievalIdle

\* the whole function; a division by zero raises ZeroDivisionError
CalculateOptimalBatchSize ==
    /\ op = "calculate_optimal_batch_size" /\ pc = "start"
    /\ LET d == DocSizeDivisor(avg_doc_size_bytes) IN
       IF d = 0
       THEN /\ pc' = "raised"
            /\ error' = [type |-> "ZeroDivisionError"]
            /\ UNCHANGED result
       ELSE /\ pc' = "returned"
            /\ result' = Clamp(CalculatedSize(available_memory_mb, memory_usage_tenths, d),
                               min_batch_size, max_batch_size)
            /\ UNCHANGED error
    /\ UNCHANGED <<op, documents, batch_size, max_retries, i, added, retries,
                   total_retries, indexWrites, attempts, callbacks, asyncVars, sizeVars,
                   rerankVars, retrievalVars>>

SizeNext == CalculateOptimalBatchSize

SpecBatchSize == SizeInit /\ [][SizeNext]_vars

\* ------------------------------------------------- KoreanReranker.rerank
\* the scores the cross-encoder can give and the thresholds configured; a
\* score is a whole number of tenths
ScoreValues == {-1, 0, 1, 2}

ThresholdValues == {0, 1}

DefaultTopN == 5

DefaultScoreThreshold == 0

\* a rerank_score an earlier call may have left on the documents
StaleScore == 7

\* doc.metadata["rerank_score"] = float(score)
WithRerankScoreOnly(md, score) == [rating |-> <<>>, rerank_score |-> <<score>>]
WithRerankScore(md, score) == [md EXCEPT !.rerank_score = <<score>>]

\* top_n or self.top_n: None and 0 are both falsy
TopNOrDefault(arg, default) ==
    IF arg = <<>> THEN default
    ELSE IF arg[1] = 0 THEN default ELSE arg[1]

\* zip(scores, documents)
Zip(scores, docs) == [k \in 1..Min(Len(scores), Len(docs)) |-> <<scores[k], docs[k]>>]

RECURSIVE InsertAscending(_, _)
InsertAscending(p, s) ==
    IF s = <<>> THEN <<p>>
    ELSE IF Head(s)[1] <= p[1]
         THEN <<Head(s)>> \o InsertAscending(p, Tail(s))
         ELSE <<p>> \o s

RECURSIVE InsertDescending(_, _)
\* p put into the descending list s behind the pairs that do not score less
InsertDescending(p, s) ==
    IF s = <<>> THEN <<p>>
    ELSE IF Head(s)[1] >= p[1]
         THEN <<Head(s)>> \o InsertDescending(p, Tail(s))
         ELSE <<p>> \o s

RECURSIVE SortInto(_, _)
SortInto(ps, acc) ==
    IF ps = <<>> THEN acc ELSE SortInto(Tail(ps), InsertDescending(Head(ps), acc))

\* sorted(pairs, key=lambda x: x[0], reverse=True): stable, highest score first
SortedByScore(ps) == SortInto(ps, <<>>)

\* s[:n] for n >= 0
PyPrefix(s, n) == SubSeq(s, 1, Min(n, Len(s)))

\* if score >= self.score_threshold
PassesThresholdStrict(score, threshold) == score > threshold
PassesThreshold(score, threshold) == score >= threshold

\* the pairs of scored_docs[:top_n] that pass the threshold, in order
Survivors(scored, n, threshold) ==
    SelectSeq(PyPrefix(scored, n), LAMBDA p : PassesThreshold(p[1], threshold))

RerankInit ==
    /\ op \in {"rerank", "rerank_with_scores"}
    /\ pc = "start"
    /\ result = NoValue /\ error = NoValue
    /\ \E n \in 0..MaxCandidates, prior \in {<<>>, <<StaleScore>>} :
          /\ rerank_documents = [k \in 1..n |-> k]
          /\ model_scores \in [1..n -> ScoreValues]
          /\ metadata = [k \in 1..n |-> [rating |-> <<k + 2>>, rerank_score |-> prior]]
    /\ score_threshold \in ThresholdValues
    /\ self_top_n \in {2, DefaultTopN}
    /\ top_n_arg \in IF op = "rerank"
                     THEN {<<>>} \cup {<<n>> : n \in 0..MaxTopN}
                     ELSE {<<>>}
    /\ predict_calls = 0
    /\ RetrievalIdle
    /\ IngestIdle
    /\ AsyncIdle
    /\ SizeIdle

\* the whole of rerank
Rerank ==
    /\ op = "rerank" /\ pc = "start"
    /\ pc' = "returned"
    /\ IF rerank_documents = <<>>
       THEN /\ result' = <<>>
            /\ UNCHANGED <<predict_calls, metadata>>
       ELSE LET n == TopNOrDefault(top_n_arg, self_top_n)
                scored_docs == SortedByScore(Zip(model_scores, rerank_documents))
                kept == Survivors(scored_docs, n, score_threshold)
            IN  /\ predict_calls' = predict_calls + 1
                /\ metadata' = [d \in DOMAIN metadata |->
                      IF \E k \in DOMAIN kept : kept[k][2] = d
                      THEN WithRerankScore(metadata[d],
                               kept[CHOOSE k \in DOMAIN kept : kept[k][2] = d][1])
                      ELSE metadata[d]]
                /\ result' = [k \in DOMAIN kept |-> kept[k][2]]
    /\ UNCHANGED <<op, error, documents, batch_size, max_retries, i, added, retries,
                   total_retries, indexWrites, attempts, callbacks, asyncVars, sizeVars,
                   rerank_documents, model_scores, score_threshold, self_top_n,
                   top_n_arg, retrievalVars>>

\* the whole of rerank_with_scores: sorted by score, the pairs under the
\* threshold left out, no top_n and no write to the metadata
RerankWithScores ==
    /\ op = "rerank_with_scores" /\ pc = "start"
    /\ pc' = "returned"
    /\ IF rerank_documents = <<>>
       THEN /\ result' = <<>>
            /\ UNCHANGED predict_calls
       ELSE LET scored_docs == SortedByScore(Zip(model_scores, rerank_documents))
                kept == SelectSeq(scored_docs,
                                  LAMBDA p : PassesThreshold(p[1], score_threshold))
            IN  /\ predict_calls' = predict_calls + 1
                /\ result' = [k \in DOMAIN kept |-> <<kept[k][2], kept[k][1]>>]
    /\ UNCHANGED <<op, error, documents, batch_size, max_retries, i, added, retries,
                   total_retries, indexWrites, attempts, callbacks, asyncVars, sizeVars,
                   rerank_documents, model_scores, score_threshold, self_top_n,
                   top_n_arg, metadata, retrievalVars>>

RerankNext == Rerank \/ RerankWithScores

SpecRerank == RerankInit /\ [][RerankNext]_vars

\* ------------------------------------------------------ metadata filter
\* _build_filter(category, sentiment, product_id, min_rating, max_rating).
\* A predicate of the filter is a record: {"category": v} is Eq("category", v),
\* {"rating": {"$gte": n}} is Gte(n); text and number keep the two value
\* types apart.
TextValues == {"", "Electronics"}
RatingValues == {0, 4}

OptionalOf(values) == {<<>>} \cup {<<v>> : v \in values}

Eq(field, v) == [field |-> field, cmp |-> "$eq", text |-> v, number |-> 0]

Gte(n) == [field |-> "rating", cmp |-> "$gte", text |-> "", number |-> n]

Lte(n) == [field |-> "rating", cmp |-> "$lte", text |-> "", number |-> n]

\* "if category:": None and the empty string are falsy
Truthy(opt) == opt # <<>> /\ opt[1] # ""

\* "if min_rating is not None": 0 counts as a bound
IsNotNone(opt) == opt # <<>>

\* the list conditions, in the order the code appends to it
Conditions(c, s, p, mn, mx) ==
    (IF Truthy(c) THEN <<Eq("category", c[1])>> ELSE <<>>)
    \o (IF Truthy(s) THEN <<Eq("sentiment", s[1])>> ELSE <<>>)
    \o (IF Truthy(p) THEN <<Eq("product_id", p[1])>> ELSE <<>>)
    \o (IF IsNotNone(mn) THEN <<Gte(mn[1])>> ELSE <<>>)
    \o (IF IsNotNone(mx) THEN <<Lte(mx[1])>> ELSE <<>>)

\* None, conditions[0] or {"$and": conditions}
WrapAlways(conditions) ==
    IF conditions = <<>> THEN [kind |-> "none", conditions |-> <<>>]
    ELSE [kind |-> "$and", conditions |-> conditions]
Wrap(conditions) ==
    IF conditions = <<>> THEN [kind |-> "none", conditions |-> <<>>]
    ELSE IF Len(conditions) = 1 THEN [kind |-> "single", conditions |-> conditions]
    ELSE [kind |-> "$and", conditions |-> conditions]

BuildFilter(c, s, p, mn, mx) == Wrap(Conditions(c, s, p, mn, mx))

FilterInit ==
    /\ op = "_build_filter"
    /\ pc = "start"
    /\ result = NoValue /\ error = NoValue
    /\ category \in OptionalOf(TextValues)
    /\ sentiment \in OptionalOf({"", "positive"})
    /\ product_id \in OptionalOf({"", "B001"})
    /\ min_rating \in OptionalOf(RatingValues)
    /\ max_rating \in OptionalOf(RatingValues)
    /\ RewriteIdle
    /\ SearchIdle
    /\ HandleIdle
    /\ MetricIdle
    /\ IngestIdle
    /\ AsyncIdle
    /\ SizeIdle
    /\ RerankIdle

BuildFilterCall ==
    /\ op = "_build_filter" /\ pc = "start"
    /\ pc' = "returned"
    /\ result' = BuildFilter(category, sentiment, product_id, min_rating, max_rating)
    /\ UNCHANGED <<op, error, documents, batch_size, max_retries, i, added, retries,
                   total_retries, indexWrites, attempts, callbacks, asyncVars, sizeVars,
                   rerankVars, retrievalVars>>

FilterNext == BuildFilterCall

SpecFilter == FilterInit /\ [][FilterNext]_vars

\* ------------------------------------------------ contextual query rewriter
\* A text is its run-length encoding: a sequence of runs [ch, n], n >= 1 copies
\* of the character ch, adjacent runs of different characters. " " is the
\* whitespace character.
Run(ch, n) == <<[ch |-> ch, n |-> n]>>

Space == Run(" ", 1)

RECURSIVE Norm(_)
Norm(t) ==
    IF t = <<>> THEN <<>>
    ELSE LET h == Head(t)
             r == Norm(Tail(t))
         IN  IF h.n = 0 THEN r
             ELSE IF r # <<>> /\ r[1].ch = h.ch
                  THEN <<[ch |-> h.ch, n |-> h.n + r[1].n]>> \o Tail(r)
                  ELSE <<h>> \o r

\* a + b on strings
Concat(a, b) == Norm(a \o b)

\* len(t)
RECURSIVE TextLen(_)
TextLen(t) == IF t = <<>> THEN 0 ELSE Head(t).n + TextLen(Tail(t))

\* t[:n]
RECURSIVE TakeChars(_, _)
TakeChars(t, n) ==
    IF t = <<>> \/ n <= 0 THEN <<>>
    ELSE IF Head(t).n <= n THEN <<Head(t)>> \o TakeChars(Tail(t), n - Head(t).n)
    ELSE <<[ch |-> Head(t).ch, n |-> n]>>

\* t.strip()
Strip(t) ==
    LET l == IF t # <<>> /\ Head(t).ch = " " THEN Tail(t) ELSE t
    IN  IF l # <<>> /\ l[Len(l)].ch = " " THEN SubSeq(l, 1, Len(l) - 1) ELSE l

\* t.split(): the maximal runs of non-whitespace characters
RECURSIVE SplitInto(_, _, _)
SplitInto(t, cur, acc) ==
    IF t = <<>> THEN (IF cur = <<>> THEN acc ELSE Append(acc, cur))
    ELSE IF Head(t).ch = " "
         THEN SplitInto(Tail(t), <<>>, IF cur = <<>> THEN acc ELSE Append(acc, cur))
         ELSE SplitInto(Tail(t), Append(cur, Head(t)), acc)

Split(t) == SplitInto(t, <<>>, <<>>)

\* " ".join(tokens)
RECURSIVE JoinSpace(_)
JoinSpace(tokens) ==
    IF tokens = <<>> THEN <<>>
    ELSE IF Len(tokens) = 1 THEN tokens[1]
    ELSE tokens[1] \o Space \o JoinSpace(Tail(tokens))

\* s[-n:] of a list, n >= 1
PyLast(s, n) == SubSeq(s, Max(1, Len(s) - n + 1), Len(s))

HistoryWindow == 6
TopicLimit == 3
MaxQueryChars == 200
FallbackTokens == 5

Roles == {"user", "assistant"}

\* the content of the k-th message of a history: one token, or seven tokens
\* after leading whitespace
TurnContent(k, shape) ==
    IF shape = "word" THEN Run("t", k)
    ELSE Run(" ", 2) \o Run("t", k) \o Space \o Run("u", 1) \o Run(" ", 3) \o Run("v", 2)
         \o Space \o Run("u", 1) \o Space \o Run("v", 1) \o Space \o Run("u", 3)
         \o Space \o Run("v", 1) \o Space

QuestionValues ==
    {Run("q", 3), Run("q", 2) \o Space \o Run("r", 4), Run("q", 198),
     Run("q", 150) \o Space \o Run("r", 60)}

ResponseValues ==
    {<<>>,
     Run(" ", 2) \o Run("s", 4) \o Space \o Run("x", 2) \o Space,
     Run("s", 200),
     Run("s", 250),
     Run(" ", 3) \o Run("s", 199) \o Space \o Run("x", 5)}

LlmOutcomes ==
    {[raises |-> TRUE, content |-> <<>>]}
    \cup {[raises |-> FALSE, content |-> c] : c \in ResponseValues}

\* chat_history[-6:]
RecentWindowWhole(history) == history
RecentWindow(history) == PyLast(history, HistoryWindow)

\* recent_topics: the contents of the user messages of the window
RecentTopics(history) ==
    LET users == SelectSeq(RecentWindow(history), LAMBDA msg : msg.role = "user")
    IN  [k \in DOMAIN users |-> users[k].content]

\* the prompt: the listed earlier questions and the current question
ContextPrompt(q, recent_topics) ==
    [topics |-> PyLast(recent_topics, TopicLimit), question |-> q]

\* the try branch: strip, then cut to 200 characters
ExpandedQuery(content) ==
    LET expanded_query == Strip(content)
    IN  IF TextLen(expanded_query) > MaxQueryChars
        THEN TakeChars(expanded_query, MaxQueryChars)
        ELSE expanded_query

\* the except branch: f"{question} {topic_keywords}"
FallbackQueryAllTokens(q, recent_topics) ==
    Concat(Concat(q, Space), JoinSpace(Split(recent_topics[Len(recent_topics)])))
FallbackQuery(q, recent_topics) ==
    LET last_topic == recent_topics[Len(recent_topics)]
        topic_keywords == JoinSpace(PyPrefix(Split(last_topic), FallbackTokens))
    IN  Concat(Concat(q, Space), topic_keywords)

\* what _build_contextual_query returns
ContextualQuery(q, history, outcome) ==
    IF history = <<>> \/ RecentTopics(history) = <<>> THEN q
    ELSE IF outcome.raises THEN FallbackQuery(q, RecentTopics(history))
    ELSE ExpandedQuery(outcome.content)

\* the prompts _build_contextual_query calls llm.invoke with
ContextualPrompts(q, history) ==
    IF history = <<>> \/ RecentTopics(history) = <<>> THEN <<>>
    ELSE <<ContextPrompt(q, RecentTopics(history))>>

RewriteInit ==
    /\ op = "_build_contextual_query"
    /\ pc = "start"
    /\ result = NoValue /\ error = NoValue
    /\ question \in QuestionValues
    /\ \E n \in 0..MaxHistory, shape \in {"word", "sentence"} :
          \E roles \in [1..n -> Roles] :
              chat_history = [k \in 1..n |->
                                 [role |-> roles[k], content |-> TurnContent(k, shape)]]
    /\ llm_outcome \in LlmOutcomes
    /\ llm_prompts = <<>>
    /\ FilterIdle
    /\ SearchIdle
    /\ HandleIdle
    /\ MetricIdle
    /\ IngestIdle
    /\ AsyncIdle
    /\ SizeIdle
    /\ RerankIdle

\* the whole of _build_contextual_query
BuildContextualQuery ==
    /\ op = "_build_contextual_query" /\ pc = "start"
    /\ pc' = "returned"
    /\ result' = ContextualQuery(question, chat_history, llm_outcome)
    /\ llm_prompts' = llm_prompts \o ContextualPrompts(question, chat_history)
    /\ UNCHANGED <<op, error, documents, batch_size, max_retries, i, added, retries,
                   total_retries, indexWrites, attempts, callbacks, asyncVars, sizeVars,
                   rerankVars, filterVars, searchVars, handleVars, metricVars, question,
                   chat_history, llm_outcome>>

RewriteNext == BuildContextualQuery

SpecRewrite == RewriteInit /\ [][RewriteNext]_vars

\* ---------------------------------------------------------- retrieval
\* ReviewRetriever.search, its callers search_with_rerank and ReviewQAChain.ask,
\* and the collaborators they call: the HyDE expander, the vector store and
\* the reranker.
FetchFactor == 4
DefaultFetchK == 20
AskK == 5
AskFetchK == 20

\* the methods class ReviewVectorStore defines
VectorStoreMethods ==
    {"add_documents", "add_documents_with_progress", "add_documents_with_stats",
     "add_documents_with_retry", "add_documents_async", "similarity_search",
     "similarity_search_with_score", "get_retriever", "get_collection_stats",
     "delete_collection", "from_documents"}

\* search_k = fetch_k or k * 4
FetchKOrDoubled(fk, kk) ==
    IF fk = <<>> THEN kk * 2
    ELSE IF fk[1] = 0 THEN kk * 2 ELSE fk[1]
FetchKOrDefault(fk, kk) ==
    IF fk = <<>> THEN kk * FetchFactor
    ELSE IF fk[1] = 0 THEN kk * FetchFactor ELSE fk[1]

\* the query the reranker is called with, given search's query argument and
\* the text sent to the index
RerankQueryExpanded(q, search_query) == search_query
RerankQuery(q, search_query) == q

\* the vector index answers a request for n documents with its best
\* min(n, matching documents) documents, in its own order
IndexResult(n) == [j \in 1..Min(n, corpus_size) |-> j]

\* the retriever's reranker attribute: None, or a KoreanReranker with its
\* top_n and score_threshold
Reranker(attached, top_n, threshold) ==
    [attached |-> attached, top_n |-> top_n, threshold |-> threshold]

\* KoreanReranker.rerank(query, candidates, top_n) on the reranker rr: the
\* <<score, document>> pairs of the documents it returns, in order
RerankKept(candidates, top_n, rr) ==
    IF candidates = <<>> THEN <<>>
    ELSE Survivors(SortedByScore(Zip([j \in DOMAIN candidates |-> model_scores[candidates[j]]],
                                     candidates)),
                   TopNOrDefault(<<top_n>>, rr.top_n), rr.threshold)

\* an outcome of search: the exception raised ("" if none), the documents
\* returned, and the calls made on the collaborators
Outcome(exc, docs, hyde, index, rerank, kept) ==
    [exc |-> exc, docs |-> docs, hyde |-> hyde, index |-> index, rerank |-> rerank,
     kept |-> kept]

IndexCall(method, q, n, fk, filter) ==
    [method |-> method, query |-> q, k |-> n, fetch_k |-> fk, filter |-> filter]

\* ReviewRetriever.search(query=q, k=kk, fetch_k=fk, use_reranker=ur,
\* use_hyde=uh, use_mmr=um, <filter arguments>) on a retriever whose reranker
\* attribute is rr
SearchRun(q, kk, fk, ur, uh, um, rr) ==
    LET filter_dict == BuildFilter(category, sentiment, product_id, min_rating, max_rating)
        should_use_hyde == IF uh # <<>> THEN uh[1] ELSE self_use_hyde
        hyde == IF should_use_hyde THEN <<q>> ELSE <<>>
        search_query == IF should_use_hyde THEN hyde_outcome.content ELSE q
    IN  IF should_use_hyde /\ hyde_outcome.raises
        THEN Outcome("LLMError", <<>>, hyde, <<>>, <<>>, <<>>)
        ELSE IF um
        THEN IF "mmr_search" \in VectorStoreMethods
             THEN LET search_k == FetchKOrDefault(fk, kk)
                  IN  Outcome("", IndexResult(kk), hyde,
                              <<IndexCall("mmr_search", search_query, kk, <<search_k>>,
                                          filter_dict)>>,
                              <<>>, <<>>)
             ELSE Outcome("AttributeError", <<>>, hyde, <<>>, <<>>, <<>>)
        ELSE IF rr.attached /\ ur
        THEN LET search_k == FetchKOrDefault(fk, kk)
                 candidates == IndexResult(search_k)
                 kept == RerankKept(candidates, kk, rr)
             IN  Outcome("", [j \in DOMAIN kept |-> kept[j][2]], hyde,
                         <<IndexCall("similarity_search", search_query, search_k, <<>>,
                                     filter_dict)>>,
                         <<[query |-> RerankQuery(q, search_query),
                            documents |-> candidates, top_n |-> kk]>>,
                         kept)
        ELSE Outcome("", IndexResult(kk), hyde,
                     <<IndexCall("similarity_search", search_query, kk, <<>>, filter_dict)>>,
                     <<>>, <<>>)

HydeOutcomes ==
    {[raises |-> TRUE, content |-> <<>>],
     [raises |-> FALSE, content |-> Run("h", 2) \o Space \o Run("y", 3)]}

AskHistories ==
    {<<>>,
     <<[role |-> "assistant", content |-> TurnContent(1, "word")]>>,
     <<[role |-> "user", content |-> TurnContent(1, "word")]>>,
     <<[role |-> "user", content |-> TurnContent(1, "sentence")],
       [role |-> "assistant", content |-> TurnContent(2, "word")]>>}

AskLlmOutcomes ==
    {[raises |-> TRUE, content |-> <<>>],
     [raises |-> FALSE, content |-> Run(" ", 2) \o Run("s", 4) \o Space \o Run("x", 2)]}

SearchInit ==
    /\ op \in {"search", "search_with_rerank", "ask"}
    /\ pc = "start"
    /\ result = NoValue /\ error = NoValue
    /\ question = Run("q", 2) \o Space \o Run("r", 4)
    /\ k_arg \in IF op = "ask" THEN {AskK} ELSE 0..MaxK
    /\ fetch_k \in IF op = "ask" THEN {<<AskFetchK>>}
                   ELSE {<<>>} \cup {<<n>> : n \in 0..MaxFetchK}
    /\ use_reranker \in IF op = "ask" THEN OptionalOf(BOOLEAN)
                        ELSE IF op = "search" THEN {<<TRUE>>, <<FALSE>>} ELSE {<<TRUE>>}
    /\ use_hyde \in IF op = "search_with_rerank" THEN {<<>>} ELSE OptionalOf(BOOLEAN)
    /\ use_mmr \in IF op = "search" THEN BOOLEAN ELSE {FALSE}
    /\ self_use_reranker \in IF op = "ask" THEN BOOLEAN ELSE {FALSE}
    /\ self_use_hyde \in IF use_hyde = <<>> THEN BOOLEAN ELSE {FALSE}
    /\ reranker_attached \in BOOLEAN
    /\ corpus_size \in 0..MaxCandidates
    /\ model_scores \in [1..corpus_size -> {-1, 1}]
    /\ metadata = [d \in 1..corpus_size |-> [rating |-> <<d + 2>>, rerank_score |-> <<>>]]
    /\ score_threshold = DefaultScoreThreshold
    \* the chain attaches KoreanReranker() with its defaults
    /\ self_top_n \in IF ~reranker_attached THEN {0}
                      ELSE IF op = "ask" THEN {DefaultTopN} ELSE {2, DefaultTopN}
    /\ rerank_documents = <<>> /\ top_n_arg = <<>> /\ predict_calls = 0
    /\ hyde_outcome \in HydeOutcomes
    /\ hyde_calls = <<>> /\ index_calls = <<>> /\ rerank_calls = <<>>
    /\ rerankers_built = 0
    \* no filter argument, or a category and a lowest rating
    /\ category \in {<<>>, <<"Electronics">>}
    /\ min_rating = IF category = <<>> THEN <<>> ELSE <<4>>
    /\ sentiment = <<>> /\ product_id = <<>> /\ max_rating = <<>>
    /\ chat_history \in IF op = "ask" THEN AskHistories ELSE {<<>>}
    /\ llm_outcome \in IF op = "ask" /\ chat_history # <<>>
                       THEN AskLlmOutcomes
                       ELSE {[raises |-> FALSE, content |-> <<>>]}
    /\ llm_prompts = <<>>
    /\ HandleIdle
    /\ MetricIdle
    /\ IngestIdle
    /\ AsyncIdle
    /\ SizeIdle

\* what a search outcome leaves on the collaborators and on the documents
ApplyOutcome(out) ==
    /\ hyde_calls' = hyde_calls \o out.hyde
    /\ index_calls' = index_calls \o out.index
    /\ rerank_calls' = rerank_calls \o out.rerank
    /\ predict_calls' = predict_calls
                          + (IF \E c \in DOMAIN out.rerank : out.rerank[c].documents # <<>>
                             THEN 1 ELSE 0)
    /\ metadata' = [d \in DOMAIN metadata |->
          IF \E j \in DOMAIN out.kept : out.kept[j][2] = d
          THEN WithRerankScore(metadata[d],
                   out.kept[CHOOSE j \in DOMAIN out.kept : out.kept[j][2] = d][1])
          ELSE metadata[d]]

searchFrame == <<op, documents, batch_size, max_retries, i, added, retries, total_retries,
                 indexWrites, attempts, callbacks, asyncVars, sizeVars, rerank_documents,
                 model_scores, top_n_arg, filterVars, question, chat_history, llm_outcome,
                 k_arg, fetch_k, use_reranker, use_hyde, use_mmr, self_use_reranker,
                 self_use_hyde, corpus_size, hyde_outcome, handleVars, metricVars>>

\* the whole of ReviewRetriever.search
Search ==
    /\ op = "search" /\ pc = "start"
    /\ \E out \in {SearchRun(question, k_arg, fetch_k, use_reranker[1], use_hyde, use_mmr,
                             Reranker(reranker_attached, self_top_n, score_threshold))} :
           /\ ApplyOutcome(out)
           /\ IF out.exc = ""
              THEN pc' = "returned" /\ result' = out.docs /\ UNCHANGED error
              ELSE pc' = "raised" /\ error' = [type |-> out.exc] /\ UNCHANGED result
    /\ UNCHANGED <<searchFrame, reranker_attached, self_top_n, score_threshold, llm_prompts,
                   rerankers_built>>

\* if not self.reranker: self.reranker = KoreanReranker()
RerankerAlwaysNew(rr) == Reranker(TRUE, DefaultTopN, DefaultScoreThreshold)
RerankerOrNew(rr) ==
    IF rr.attached THEN rr ELSE Reranker(TRUE, DefaultTopN, DefaultScoreThreshold)

\* the whole of search_with_rerank: a missing reranker is constructed with its
\* defaults and attached (KoreanReranker() raises ImportError where
\* sentence-transformers is not installed), then search runs with
\* use_reranker=True
SearchWithRerank ==
    /\ op = "search_with_rerank" /\ pc = "start"
    /\ \/ \E rr \in {RerankerOrNew(Reranker(reranker_attached, self_top_n,
                                            score_threshold))} :
             /\ reranker_attached' = rr.attached
             /\ self_top_n' = rr.top_n
             /\ score_threshold' = rr.threshold
             /\ rerankers_built' = rerankers_built + (IF reranker_attached THEN 0 ELSE 1)
             /\ \E out \in {SearchRun(question, k_arg,
                                      IF fetch_k = <<>> THEN <<DefaultFetchK>> ELSE fetch_k,
                                      TRUE, <<>>, FALSE, rr)} :
                    /\ ApplyOutcome(out)
                    /\ IF out.exc = ""
                       THEN pc' = "returned" /\ result' = out.docs /\ UNCHANGED error
                       ELSE pc' = "raised" /\ error' = [type |-> out.exc]
                            /\ UNCHANGED result
       \/ /\ ~reranker_attached
          /\ pc' = "raised"
          /\ error' = [type |-> "ImportError"]
          /\ UNCHANGED <<reranker_attached, self_top_n, score_threshold, rerankers_built,
                         hyde_calls, index_calls, rerank_calls, predict_calls, metadata,
                         result>>
    /\ UNCHANGED <<searchFrame, llm_prompts>>

\* a later retriever.search(query, k) with every other argument at its default
\* (use_reranker=True, no fetch_k), after search_with_rerank has ended
LaterSearch ==
    /\ op = "search_with_rerank" /\ pc \in {"returned", "raised"}
    /\ \E kk \in 0..MaxK :
         \E out \in {SearchRun(question, kk, <<>>, TRUE, <<>>, FALSE,
                               Reranker(reranker_attached, self_top_n, score_threshold))} :
           /\ ApplyOutcome(out)
           /\ IF out.exc = ""
              THEN pc' = "later_returned" /\ result' = out.docs /\ UNCHANGED error
              ELSE pc' = "later_raised" /\ error' = [type |-> out.exc] /\ UNCHANGED result
    /\ UNCHANGED <<searchFrame, reranker_attached, self_top_n, score_threshold, llm_prompts,
                   rerankers_built>>

\* the whole of ReviewQAChain.ask: the contextual rewrite when there is a
\* history, the search with k=5 and fetch_k=20, then the answer generation,
\* which returns or raises
Ask ==
    /\ op = "ask" /\ pc = "start"
    /\ LET should_rerank == IF use_reranker # <<>> THEN use_reranker[1]
                            ELSE self_use_reranker
           should_use_hyde == IF use_hyde # <<>> THEN use_hyde[1] ELSE self_use_hyde
           search_query == IF chat_history # <<>>
                           THEN ContextualQuery(question, chat_history, llm_outcome)
                           ELSE question
       IN  \E out \in {SearchRun(search_query, AskK, <<AskFetchK>>, should_rerank,
                                  <<should_use_hyde>>, FALSE,
                                  Reranker(reranker_attached, self_top_n,
                                           score_threshold))} :
           /\ ApplyOutcome(out)
           /\ llm_prompts' = llm_prompts \o ContextualPrompts(question, chat_history)
           /\ IF out.exc # ""
              THEN pc' = "raised" /\ error' = [type |-> out.exc] /\ UNCHANGED result
              ELSE \/ /\ pc' = "returned"
                      /\ result' = [answer |-> "answer", source_documents |-> out.docs,
                                    question |-> question]
                      /\ UNCHANGED error
                   \/ /\ pc' = "raised"
                      /\ error' = [type |-> "LLMError"]
                      /\ UNCHANGED result
    /\ UNCHANGED <<searchFrame, reranker_attached, self_top_n, score_threshold,
                   rerankers_built>>

SearchNext == Search \/ SearchWithRerank \/ LaterSearch \/ Ask

SpecSearch == SearchInit /\ [][SearchNext]_vars

\* the rewriter called directly, or a retrieval call (ask runs the rewriter)
RetrievalInit == RewriteInit \/ SearchInit

RetrievalNext == RewriteNext \/ SearchNext

SpecRetrieval == RetrievalInit /\ [][RetrievalNext]_vars

\* ------------------------------------------------------- lazy handles
\* ReviewVectorStore.vectorstore and KoreanReranker.model are properties that
\* build their object on the first access; the calls below are followed on one
\* ReviewVectorStore and one KoreanReranker.
DEFAULT_MODEL == "BAAI/bge-reranker-v2-m3"

FALLBACK_MODEL == "cross-encoder/ms-marco-MiniLM-L-6-v2"

\* the methods of ReviewVectorStore that go through self.vectorstore
HandleMethods == {"add_documents", "similarity_search", "get_collection_stats"}

\* how a CrossEncoder(name) construction can end
LoadOutcomes == {"loaded", "failed"}

\* self._vectorstore after delete_collection
AfterDeleteKept(h) == h
AfterDelete(h) == <<>>

\* self.model_name after the model property has loaded the model named m:
\* the property assigns self._model only
NameAfterLoad(name, m) == name

HandlesInit ==
    /\ op = "calls"
    /\ pc = "idle"
    /\ result = NoValue /\ error = NoValue
    /\ vectorstore_handle = <<>>
    /\ chroma_built = 0
    /\ handle_log = <<>>
    /\ model_name \in {DEFAULT_MODEL, "custom/model"}
    /\ loaded_model = <<>>
    /\ model_loads = <<>>
    /\ model_log = <<>>
    /\ FilterIdle /\ RewriteIdle /\ SearchIdle /\ MetricIdle
    /\ IngestIdle
    /\ AsyncIdle
    /\ SizeIdle
    /\ RerankIdle

CallsMade == Len(handle_log) + Len(model_log)

handlesFrame == <<op, pc, result, documents, batch_size, max_retries, i, added, retries,
                  total_retries, indexWrites, attempts, callbacks, asyncVars, sizeVars,
                  rerankVars, filterVars, rewriteVars, searchVars, metricVars>>

\* the vectorstore property: the Chroma in hand, a new one when there is none
HandleInUse == IF vectorstore_handle = <<>> THEN chroma_built + 1 ELSE vectorstore_handle[1]

BuiltAfterUse == IF vectorstore_handle = <<>> THEN chroma_built + 1 ELSE chroma_built

\* a search, an ingestion write or a statistics call: self.vectorstore.<method>(...)
UseVectorStore(method) ==
    /\ op = "calls" /\ CallsMade < MaxCalls
    /\ vectorstore_handle' = <<HandleInUse>>
    /\ chroma_built' = BuiltAfterUse
    /\ handle_log' = Append(handle_log, [method |-> method, handle |-> HandleInUse])
    /\ error' = NoValue
    /\ UNCHANGED <<handlesFrame, model_name, loaded_model, model_loads, model_log>>

\* delete_collection: the collection is deleted through the handle, then the
\* handle is dropped
DeleteCollection ==
    /\ op = "calls" /\ CallsMade < MaxCalls
    /\ vectorstore_handle' = AfterDelete(<<HandleInUse>>)
    /\ chroma_built' = BuiltAfterUse
    /\ handle_log' = Append(handle_log,
                            [method |-> "delete_collection", handle |-> HandleInUse])
    /\ error' = NoValue
    /\ UNCHANGED <<handlesFrame, model_name, loaded_model, model_loads, model_log>>

\* rerank on a non-empty list: self.model.predict(pairs). The model property
\* loads self.model_name when no model is loaded, FALLBACK_MODEL when that
\* raises, and lets the second failure out.
RerankCall ==
    /\ op = "calls" /\ CallsMade < MaxCalls
    /\ IF loaded_model # <<>>
       THEN /\ model_log' = Append(model_log, loaded_model[1])
            /\ error' = NoValue
            /\ UNCHANGED <<loaded_model, model_loads, model_name>>
       ELSE \E first \in LoadOutcomes :
              IF first = "loaded"
              THEN /\ model_loads' = Append(model_loads, <<model_name, "loaded">>)
                   /\ loaded_model' = <<model_name>>
                   /\ model_name' = NameAfterLoad(model_name, model_name)
                   /\ model_log' = Append(model_log, model_name)
                   /\ error' = NoValue
              ELSE \E second \in LoadOutcomes :
                     /\ model_loads' = model_loads \o << <<model_name, "failed">>,
                                                        <<FALLBACK_MODEL, second>> >>
                     /\ IF second = "loaded"
                        THEN /\ loaded_model' = <<FALLBACK_MODEL>>
                             /\ model_name' = NameAfterLoad(model_name, FALLBACK_MODEL)
                             /\ model_log' = Append(model_log, FALLBACK_MODEL)
                             /\ error' = NoValue
                        ELSE /\ model_log' = Append(model_log, "raised")
                             /\ error' = [type |-> "LoadError"]
                             /\ UNCHANGED <<loaded_model, model_name>>
    /\ UNCHANGED <<handlesFrame, vectorstore_handle, chroma_built, handle_log>>

HandlesNext ==
    \/ \E method \in HandleMethods : UseVectorStore(method)
    \/ DeleteCollection
    \/ RerankCall

SpecHandles == HandlesInit /\ [][HandlesNext]_vars

\* ------------------------------------------------- retrieval metrics
\* A float is kept as the fraction it was computed from, [num, den] with
\* den >= 1, or as Infinity.
Frac(n, d) == [inf |-> FALSE, num |-> n, den |-> d]

Zero == Frac(0, 1)

Infinity == [inf |-> TRUE, num |-> 0, den |-> 1]

DocIds == {"a", "b", "c"}

\* the sequences over S of length at most n
SeqsUpTo(S, n) == UNION {[1..m -> S] : m \in 0..n}

\* sum(1 for doc_id in top_k if doc_id in relevant_ids)
RelevantIn(top_k, relevant) == Cardinality({p \in DOMAIN top_k : top_k[p] \in relevant})

\* RetrievalMetrics.precision_at_k
PrecisionAtK(retrieved, relevant, kk) ==
    IF kk <= 0 THEN Zero
    ELSE LET top_k == PyPrefix(retrieved, kk)
         IN  IF top_k = <<>> THEN Zero
             ELSE Frac(RelevantIn(top_k, relevant), Len(top_k))

\* RetrievalMetrics.recall_at_k
RecallAtK(retrieved, relevant, kk) ==
    IF relevant = {} \/ kk <= 0 THEN Zero
    ELSE Frac(RelevantIn(PyPrefix(retrieved, kk), relevant), Cardinality(relevant))

\* round(x, 2) of the fraction n / d, d >= 1, in hundredths: the nearest
\* hundredth, a tie going to the even one
RoundHundredths(n, d) ==
    LET scaled == 100 * n
        q == scaled \div d
        rest == scaled - q * d
    IN  IF 2 * rest < d THEN q
        ELSE IF 2 * rest > d THEN q + 1
        ELSE IF q % 2 = 0 THEN q ELSE q + 1

\* calc_improvement(baseline, reranked), as a fraction or Infinity
CalcImprovementNoInfinity(baseline, reranked) ==
    IF baseline.num = 0 THEN Zero
    ELSE Frac(100 * (reranked.num * baseline.den - baseline.num * reranked.den),
              reranked.den * baseline.num)
CalcImprovement(baseline, reranked) ==
    IF baseline.num = 0
    THEN (IF reranked.num = 0 THEN Zero ELSE Infinity)
    ELSE Frac(100 * (reranked.num * baseline.den - baseline.num * reranked.den),
              reranked.den * baseline.num)

\* round(x, 2): the improvement as reported, in hundredths; infinity stays
Round2(x) ==
    IF x.inf THEN [inf |-> TRUE, hundredths |-> 0]
    ELSE [inf |-> FALSE, hundredths |-> RoundHundredths(x.num, x.den)]

MetricNames == {"mrr", "hit_rate", "ndcg"}

\* the values mrr, hit_rate and ndcg take here
MetricValues == {Zero, Frac(1, 3), Frac(1, 2), Frac(1, 1)}

MetricsInit ==
    /\ op \in {"precision_at_k", "recall_at_k", "compare"}
    /\ pc = "start"
    /\ result = NoValue /\ error = NoValue
    /\ retrieved_ids \in IF op = "compare" THEN {<<>>} ELSE SeqsUpTo(DocIds, MaxRetrieved)
    /\ relevant_ids \in IF op = "compare" THEN {{}} ELSE SUBSET DocIds
    /\ at_k \in IF op = "compare" THEN {0} ELSE -1..MaxAtK
    /\ baseline_eval \in IF op = "compare" THEN [MetricNames -> MetricValues] ELSE {<<>>}
    /\ reranked_eval \in IF op = "compare" THEN [MetricNames -> MetricValues] ELSE {<<>>}
    /\ FilterIdle /\ RewriteIdle /\ SearchIdle /\ HandleIdle
    /\ IngestIdle
    /\ AsyncIdle
    /\ SizeIdle
    /\ RerankIdle

metricsFrame == <<op, error, documents, batch_size, max_retries, i, added, retries,
                  total_retries, indexWrites, attempts, callbacks, asyncVars, sizeVars,
                  rerankVars, filterVars, rewriteVars, searchVars, handleVars, metricVars>>

PrecisionAtKCall ==
    /\ op = "precision_at_k" /\ pc = "start"
    /\ pc' = "returned"
    /\ result' = PrecisionAtK(retrieved_ids, relevant_ids, at_k)
    /\ UNCHANGED metricsFrame

RecallAtKCall ==
    /\ op = "recall_at_k" /\ pc = "start"
    /\ pc' = "returned"
    /\ result' = RecallAtK(retrieved_ids, relevant_ids, at_k)
    /\ UNCHANGED metricsFrame

\* the "improvement" entry of what compare returns
Compare ==
    /\ op = "compare" /\ pc = "start"
    /\ pc' = "returned"
    /\ result' = [m \in MetricNames |->
                     Round2(CalcImprovement(baseline_eval[m], reranked_eval[m]))]
    /\ UNCHANGED metricsFrame

MetricsNext == PrecisionAtKCall \/ RecallAtKCall \/ Compare

SpecMetrics == MetricsInit /\ [][MetricsNext]_vars

\* ------------------------------------------------ claims: sequential ingestion
\* the number of batches of the run
NumBatches == CeilDiv(total, batch_size)

\* the write attempts issued for batch b, and those of them that failed
AttemptsOf(b) == {k \in DOMAIN attempts : attempts[k][1] = b}

FailuresOf(b) == {k \in AttemptsOf(b) : attempts[k][2] # "ok"}

FailedAttempts == {k \in DOMAIN attempts : attempts[k][2] # "ok"}

\* C1: add_documents writes the documents in order, in batches of at most
\* batch_size consecutive documents, every document in exactly one write; when
\* it returns it has issued exactly ceil(N / B) writes and returns N.
C1_FixedBatchWrites ==
    op = "add_documents" =>
        /\ \A k \in DOMAIN indexWrites :
              /\ Len(indexWrites[k]) \in 1..batch_size
              /\ k < Len(indexWrites) => Len(indexWrites[k]) = batch_size
        /\ Flatten(indexWrites) = SubSeq(documents, 1, Len(Flatten(indexWrites)))
        /\ pc = "returned" =>
              /\ Len(attempts) = NumBatches
              /\ Len(indexWrites) = NumBatches
              /\ Flatten(indexWrites) = documents
              /\ result = total

C1_Witness ==
    /\ op = "add_documents" /\ pc = "returned"
    /\ total = 3 /\ batch_size = 2
    /\ indexWrites = << <<1, 2>>, <<3>> >>

\* C2: add_documents_with_progress calls the callback once after each batch's
\* write completes, ceil(N / B) times in all; processed is strictly increasing,
\* never exceeds total, and the last call is (N, N) when N > 0.
C2_ProgressCallbacks ==
    op = "add_documents_with_progress" =>
        /\ Len(callbacks) = Len(indexWrites)
        /\ \A k \in DOMAIN callbacks :
              /\ callbacks[k][2] = total
              /\ callbacks[k][1] <= callbacks[k][2]
              /\ callbacks[k][1] = Len(Flatten(SubSeq(indexWrites, 1, k)))
              /\ k > 1 => callbacks[k - 1][1] < callbacks[k][1]
        /\ pc = "returned" =>
              /\ Len(callbacks) = NumBatches
              /\ total > 0 => callbacks[Len(callbacks)] = <<total, total>>

C2_Witness ==
    /\ op = "add_documents_with_progress" /\ pc = "returned"
    /\ callbacks = << <<2, 3>>, <<3, 3>> >>

\* every batch of the run has a write that succeeded
AllBatchesSucceeded ==
    \A b \in 0..(NumBatches - 1) : \E k \in AttemptsOf(b) : attempts[k][2] = "ok"

\* C3: when every batch of add_documents_with_retry succeeds within its
\* max_retries + 1 attempts, the call does not raise and returns success = True,
\* processed = N and retry_count = the number of failed writes of the whole run.
C3_RetrySuccessResult ==
    (op = "add_documents_with_retry" /\ AllBatchesSucceeded) =>
        /\ pc # "raised"
        /\ pc = "returned" =>
              result = [success |-> TRUE, processed |-> total,
                        retry_count |-> Cardinality(FailedAttempts)]

C3_Witness ==
    /\ op = "add_documents_with_retry" /\ pc = "returned" /\ AllBatchesSucceeded
    /\ NumBatches >= 2
    /\ FailuresOf(0) # {} /\ FailuresOf(1) # {}
    /\ FailuresOf(NumBatches - 1) = {}
    /\ result.retry_count >= 2

\* C4: with max_retries >= 0, add_documents_with_retry writes each batch at
\* most max_retries + 1 times; when all max_retries + 1 attempts of a batch have
\* failed the call has raised IndexingError naming that batch's zero-based index,
\* caused by the exception of the last attempt, and it returns nothing.
C4_RetryExhaustion ==
    (op = "add_documents_with_retry" /\ max_retries >= 0) =>
        \A b \in 0..(NumBatches - 1) :
            /\ Cardinality(AttemptsOf(b)) <= max_retries + 1
            /\ Cardinality(FailuresOf(b)) = max_retries + 1 =>
                  /\ pc = "raised"
                  /\ result = NoValue
                  /\ error.type = "IndexingError"
                  /\ error.batch = b
                  /\ error.cause = attempts[Len(attempts)][2]
                  /\ error.text = error.cause

C4_Witness ==
    /\ op = "add_documents_with_retry" /\ pc = "raised"
    /\ max_retries = 2 /\ error.batch = 1
    /\ Cardinality(FailuresOf(1)) = 3
    /\ attempts[Len(attempts) - 1][2] # error.cause

\* ------------------------------------------------ claims: concurrent ingestion
RECURSIVE SumLen(_, _)
\* the number of documents in the batches of the tasks in T
SumLen(bs, T) ==
    IF T = {} THEN 0
    ELSE LET t == CHOOSE u \in T : TRUE IN Len(bs[t]) + SumLen(bs, T \ {t})

\* C5: in add_documents_async the number of batch writes in flight (tasks
\* admitted by the semaphore and not yet out of it) is at most max_concurrent,
\* in every state of every interleaving.
C5_BoundedInFlight ==
    (op = "add_documents_async" /\ pc # "start" /\ max_concurrent >= 0) =>
        Cardinality(Holding) <= max_concurrent

C5_Witness ==
    /\ op = "add_documents_async" /\ max_concurrent = 2
    /\ Cardinality({t \in Tasks : taskState[t] = "writing"}) = 2
    /\ semWaiters # <<>>

\* C6: add_documents_async returns only when every batch's write has completed,
\* and then returns success = True and processed = N whatever the order in
\* which the writes completed; processed is at all times the number of documents
\* of the tasks that have finished (no increment is lost).
C6_AsyncAggregate ==
    op = "add_documents_async" =>
        /\ processed = SumLen(batches, {t \in Tasks : taskState[t] = "done"})
        /\ pc = "returned" =>
              /\ \A t \in Tasks : taskState[t] = "done"
              /\ Len(indexWrites) = Len(batches)
              /\ \A t \in Tasks : \E k \in DOMAIN indexWrites : indexWrites[k] = batches[t]
              /\ result = [success |-> TRUE, processed |-> total]

C6_Witness ==
    /\ op = "add_documents_async" /\ pc = "returned"
    /\ Len(batches) = 3 /\ total = 3
    /\ indexWrites[1] = batches[2] /\ indexWrites[3] = batches[1]
    /\ result.processed = 3

\* C7: for every max_concurrent the semaphore accepts (0, 1, 2, ...) and with
\* every index write ending, add_documents_async eventually has issued the
\* write of every batch and has returned its result (or has raised, when a
\* write raised or the semaphore refused max_concurrent).
C7_AsyncEventuallyReturns ==
    <>(\/ pc = "raised"
       \/ pc = "returned" /\ Len(attempts) = NumBatches)

\* ------------------------------------------------ claims: batch size
\* usable bytes and document size, both times ten
UsableTimesTen == available_memory_mb * BytesPerMb * memory_usage_tenths

DocSizeTimesTen == 10 * avg_doc_size_bytes

\* C8: calculate_optimal_batch_size never raises; with min_batch_size <=
\* max_batch_size its result lies in [min_batch_size, max_batch_size], also for
\* avg_doc_size_bytes = 0; and for avg_doc_size_bytes >= 1 the result is
\* floor(usable bytes / avg_doc_size_bytes) clamped to that range.
C8_BatchSizeClamped ==
    op = "calculate_optimal_batch_size" =>
        /\ pc # "raised"
        /\ (pc = "returned" /\ min_batch_size <= max_batch_size) =>
              /\ result \in min_batch_size..max_batch_size
              /\ avg_doc_size_bytes >= 1 =>
                    IF UsableTimesTen < (min_batch_size + 1) * DocSizeTimesTen
                    THEN result = min_batch_size
                    ELSE IF UsableTimesTen >= max_batch_size * DocSizeTimesTen
                    THEN result = max_batch_size
                    ELSE /\ result * DocSizeTimesTen <= UsableTimesTen
                         /\ UsableTimesTen < (result + 1) * DocSizeTimesTen

C8_Witness ==
    /\ op = "calculate_optimal_batch_size" /\ pc = "returned"
    /\ available_memory_mb = 1 /\ memory_usage_tenths = 3
    /\ avg_doc_size_bytes = 1000
    /\ min_batch_size = 10 /\ max_batch_size = 1000
    /\ result = 314

\* ------------------------------------------------ claims: rerank
\* the place candidate k takes when the candidates are put in descending score
\* order, equal scores keeping their order
RankOf(k) ==
    1 + Cardinality({j \in DOMAIN model_scores : model_scores[j] > model_scores[k]})
      + Cardinality({j \in DOMAIN model_scores :
                        j < k /\ model_scores[j] = model_scores[k]})

\* the reference procedure: the candidates by descending score, those scoring
\* at least the threshold kept, and of these the first n
ReferenceRerank(n) ==
    LET ranked == [r \in DOMAIN rerank_documents |->
                      CHOOSE k \in DOMAIN rerank_documents : RankOf(k) = r]
        passing == SelectSeq(ranked, LAMBDA k : model_scores[k] >= score_threshold)
    IN  [r \in 1..Min(n, Len(passing)) |-> rerank_documents[passing[r]]]

\* the number of documents the caller asked for
RequestedTopN == IF top_n_arg = <<>> THEN self_top_n ELSE top_n_arg[1]

C10_AtMostRequested ==
    (op = "rerank" /\ pc = "returned" /\ rerank_documents # <<>> /\ top_n_arg # <<>>) =>
        Len(result) <= Min(top_n_arg[1], Len(rerank_documents))

\* the candidates whose score is at least the configured threshold
PassingCandidates == {d \in DOMAIN model_scores : model_scores[d] >= score_threshold}

\* C11: with the default threshold 0.0 rerank drops no candidate because of
\* its score, negative scores included: for top_n >= 1 it returns exactly
\* min(top_n, len(candidates)) documents.
C11_DefaultThresholdKeepsAll ==
    (op = "rerank" /\ pc = "returned" /\ rerank_documents # <<>>
       /\ score_threshold = DefaultScoreThreshold /\ RequestedTopN >= 1) =>
        Len(result) = Min(RequestedTopN, Len(rerank_documents))

\* C12 as claimed: rerank_with_scores returns one pair for every candidate,
\* whatever the threshold.
C12_PairForEveryCandidate ==
    (op = "rerank_with_scores" /\ pc = "returned") =>
        Len(result) = Len(rerank_documents)

\* C12 as amended: rerank_with_scores returns exactly the candidates scoring at
\* least score_threshold, each once and paired with its score, in descending
\* score order (equal scores in candidate order), and calls predict only for a
\* non-empty list.
C12_PairsAboveThreshold ==
    (op = "rerank_with_scores" /\ pc = "returned") =>
        /\ Len(result) = Cardinality(PassingCandidates)
        /\ {result[k][1] : k \in DOMAIN result} = PassingCandidates
        /\ \A k \in DOMAIN result :
              /\ result[k][2] = model_scores[result[k][1]]
              /\ k > 1 =>
                    \/ result[k - 1][2] > result[k][2]
                    \/ result[k - 1][2] = result[k][2] /\ result[k - 1][1] < result[k][1]
        /\ predict_calls = IF rerank_documents = <<>> THEN 0 ELSE 1

C12_Witness ==
    /\ op = "rerank_with_scores" /\ pc = "returned"
    /\ model_scores = <<0, 2, 1>> /\ score_threshold = 1
    /\ result = << <<2, 2>>, <<3, 1>> >>

\* C13: a rerank call leaves on every document it returns rerank_score = the
\* score the document was ranked with and the document's other metadata as it
\* was, and leaves the metadata of the candidates it does not return as it was.
C13_RerankMetadata ==
    [][(op = "rerank" /\ pc = "start" /\ pc' = "returned") =>
          \A d \in DOMAIN metadata :
              IF \E k \in DOMAIN result' : result'[k] = d
              THEN /\ metadata'[d].rerank_score = <<model_scores[d]>>
                   /\ metadata'[d].rating = metadata[d].rating
              ELSE metadata'[d] = metadata[d]]_vars

C13_Witness ==
    /\ op = "rerank" /\ pc = "returned"
    /\ model_scores = <<2, 0, 1>> /\ score_threshold = 1 /\ top_n_arg = <<1>>
    /\ result = <<1>>
    /\ metadata[1] = [rating |-> <<3>>, rerank_score |-> <<2>>]
    /\ metadata[2] = [rating |-> <<4>>, rerank_score |-> <<StaleScore>>]
    /\ metadata[3] = [rating |-> <<5>>, rerank_score |-> <<StaleScore>>]

\* the predicates the supplied conditions call for: a text condition is
\* supplied when it is a non-empty string, a rating bound when it is not None
ExpectedPredicates ==
    (IF category # <<>> /\ category # <<"">> THEN {Eq("category", category[1])} ELSE {})
    \cup (IF sentiment # <<>> /\ sentiment # <<"">>
          THEN {Eq("sentiment", sentiment[1])} ELSE {})
    \cup (IF product_id # <<>> /\ product_id # <<"">>
          THEN {Eq("product_id", product_id[1])} ELSE {})
    \cup (IF min_rating # <<>>
          THEN {[field |-> "rating", cmp |-> "$gte", text |-> "", number |-> min_rating[1]]}
          ELSE {})
    \cup (IF max_rating # <<>>
          THEN {[field |-> "rating", cmp |-> "$lte", text |-> "", number |-> max_rating[1]]}
          ELSE {})

\* C19: _build_filter yields exactly one predicate per supplied condition
\* (equality for category, sentiment and product_id, >= for min_rating, <= for
\* max_rating) and nothing else: no filter for no condition, the predicate
\* itself for one, a single $and of all of them for two or more.
C19_BuildFilter ==
    (op = "_build_filter" /\ pc = "returned") =>
        /\ {result.conditions[k] : k \in DOMAIN result.conditions} = ExpectedPredicates
        /\ Len(result.conditions) = Cardinality(ExpectedPredicates)
        /\ result.kind = IF Cardinality(ExpectedPredicates) = 0 THEN "none"
                         ELSE IF Cardinality(ExpectedPredicates) = 1 THEN "single"
                         ELSE "$and"

C19_Witness ==
    /\ op = "_build_filter" /\ pc = "returned"
    /\ category = <<"Electronics">> /\ sentiment = <<"">> /\ product_id = <<>>
    /\ min_rating = <<0>> /\ max_rating = <<4>>
    /\ result = [kind |-> "$and",
                 conditions |-> <<Eq("category", "Electronics"), Gte(0), Lte(4)>>]

\* the positions of the user messages of chat_history from position lo on
UserTurnsFrom(lo) ==
    {k \in DOMAIN chat_history : k >= lo /\ chat_history[k].role = "user"}

\* the m-th smallest member of a set of numbers
NthSmallest(S, m) == CHOOSE x \in S : Cardinality({y \in S : y < x}) = m - 1

\* the contents of the last three turns among the positions U, oldest first
LastTopicsAmong(U) ==
    LET chosen == {k \in U : Cardinality({j \in U : j > k}) < 3}
    IN  [m \in 1..Cardinality(chosen) |-> chat_history[NthSmallest(chosen, m)].content]

\* C20 as claimed: for a non-empty history the recent topics handed to the
\* generator are the last min(3, u) user turns of the whole history, in order,
\* u the number of user turns of the whole history.
C20_TopicsOfWholeHistory ==
    (op = "_build_contextual_query" /\ pc = "returned" /\ chat_history # <<>>) =>
        \A c \in DOMAIN llm_prompts :
            llm_prompts[c].topics = LastTopicsAmong(UserTurnsFrom(1))

\* C20 as amended: the recent topics handed to the generator are the last
\* min(3, w) user turns among the last six messages of the history, in order,
\* w the number of user turns among those six messages; the generator is
\* called once, with the question, when w >= 1, and when w = 0 it is not
\* called and the question is returned as it is.
C20_TopicsOfLastSixMessages ==
    (op = "_build_contextual_query" /\ pc = "returned" /\ chat_history # <<>>) =>
        LET window == UserTurnsFrom(Len(chat_history) - 5)
        IN  IF window = {}
            THEN llm_prompts = <<>> /\ result = question
            ELSE /\ Len(llm_prompts) = 1
                 /\ llm_prompts[1].topics = LastTopicsAmong(window)
                 /\ llm_prompts[1].question = question

C20_Witness ==
    /\ op = "_build_contextual_query" /\ pc = "returned"
    /\ Len(chat_history) = 7
    /\ \A k \in 1..7 : chat_history[k].role = (IF k <= 3 THEN "user" ELSE "assistant")
    /\ Len(llm_prompts) = 1
    /\ llm_prompts[1].topics = <<chat_history[2].content, chat_history[3].content>>

\* ------------------------------------------------------- claims: retrieval
\* whether the call runs with HyDE expansion, and whether it asks for reranking
ShouldUseHyde == IF use_hyde # <<>> THEN use_hyde[1] ELSE self_use_hyde

ShouldRerank == IF use_reranker # <<>> THEN use_reranker[1] ELSE self_use_reranker

\* the query argument ReviewRetriever.search is called with: the question, or
\* for ask with a history what the contextual rewriter made of it
QueryArgument ==
    IF op = "ask" THEN ContextualQuery(question, chat_history, llm_outcome) ELSE question

\* C14 as claimed: when HyDE expansion and reranking are both active (the
\* expander was called and the reranker scored candidates), the index is
\* searched with the expanded text and the reranker scores against the
\* original user question, for search and for ask with or without history.
C14_RerankAgainstQuestion ==
    (op \in {"search", "ask"} /\ pc # "start" /\ hyde_calls # <<>> /\ predict_calls > 0) =>
        /\ \A c \in DOMAIN index_calls : index_calls[c].query = hyde_outcome.content
        /\ \A c \in DOMAIN rerank_calls : rerank_calls[c].query = question

\* C14 as amended: when HyDE expansion and reranking are both active, the
\* expanded text goes to the similarity search only, and the reranker scores
\* against the query search was called with, never the expanded text: that
\* query is the user's question for a direct search and for ask without a
\* user turn in the last six messages of the history, and the contextual
\* rewrite of the question for ask with such a history.
C14_RerankAgainstSearchArgument ==
    (op \in {"search", "search_with_rerank", "ask"} /\ pc \in {"returned", "raised"}
       /\ hyde_calls # <<>> /\ rerank_calls # <<>>) =>
        /\ hyde_calls = <<QueryArgument>>
        /\ \A c \in DOMAIN index_calls : index_calls[c].query = hyde_outcome.content
        /\ \A c \in DOMAIN rerank_calls :
              /\ rerank_calls[c].query = QueryArgument
              /\ rerank_calls[c].query # hyde_outcome.content
        /\ (op # "ask" \/ UserTurnsFrom(Len(chat_history) - 5) = {}) =>
              QueryArgument = question

C14_Witness ==
    /\ op = "ask" /\ pc = "returned"
    /\ Len(chat_history) = 1 /\ chat_history[1].role = "user"
    /\ ~llm_outcome.raises
    /\ corpus_size = 2 /\ predict_calls = 1
    /\ result.source_documents = <<1, 2>>
    /\ hyde_calls = <<Run("s", 4) \o Space \o Run("x", 2)>>
    /\ Len(index_calls) = 1 /\ index_calls[1].query = Run("h", 2) \o Space \o Run("y", 3)
    /\ Len(rerank_calls) = 1 /\ rerank_calls[1].query = Run("s", 4) \o Space \o Run("x", 2)
    /\ rerank_calls[1].query # question

C16_SearchAtMostK ==
    (op = "search" /\ pc = "returned") => Len(result) <= k_arg

\* C17: whenever the over-fetch is used (the reranker is called), the number of
\* candidates asked of the index is at least k, for every k and every fetch_k
\* the caller supplies.
C17_OverFetchAtLeastK ==
    (op \in {"search", "search_with_rerank"} /\ pc = "returned" /\ rerank_calls # <<>>) =>
        \A c \in DOMAIN index_calls : index_calls[c].k >= k_arg

\* C18: with use_mmr true search completes by returning the vector store's
\* MMR result for (search query, k, fetch_k or 4 * k, built filter), and calls
\* neither the similarity search nor the reranker.
C18_MmrSearchReturns ==
    (op = "search" /\ use_mmr /\ pc # "start" /\ ~(ShouldUseHyde /\ hyde_outcome.raises)) =>
        /\ pc = "returned"
        /\ Len(index_calls) = 1
        /\ index_calls[1].method = "mmr_search"
        /\ index_calls[1].k = k_arg
        /\ rerank_calls = <<>>

\* ------------------------------------------- claims: contextual rewriter
\* C21: on every path the text the contextual query rewriter returns has at
\* most 200 characters (here already for the questions of at most 200
\* characters).
C21_RewriteAtMost200 ==
    (op = "_build_contextual_query" /\ pc = "returned"
       /\ TextLen(question) <= MaxQueryChars) =>
        TextLen(result) <= MaxQueryChars

\* the first five tokens, joined by one space, of a message content of the
\* histories: a "word" content is its one token, a "sentence" content at
\* position p is "  t..t u   vv u v uuu v "
FirstFiveTokens(p) ==
    IF chat_history[p].content = Run("t", p) THEN Run("t", p)
    ELSE Run("t", p) \o Space \o Run("u", 1) \o Space \o Run("v", 2) \o Space
         \o Run("u", 1) \o Space \o Run("v", 1)

\* question, one space, the first five tokens of the latest user turn
ExpectedFallback ==
    LET last == CHOOSE p \in UserTurnsFrom(1) : \A o \in UserTurnsFrom(1) : o <= p
    IN  question \o Space \o FirstFiveTokens(last)

\* C22: when the generator call of the rewriter fails, the rewriter does not
\* raise: it returns the question, one space and the first five tokens of the
\* most recent user turn, a function of (question, history) alone; ask then
\* runs the retrieval with that text as the query.
C22_FallbackOnFailure ==
    /\ (op = "_build_contextual_query" /\ pc # "start"
          /\ llm_outcome.raises /\ llm_prompts # <<>>) =>
           /\ pc = "returned"
           /\ result = ExpectedFallback
    /\ (op = "ask" /\ pc # "start" /\ llm_outcome.raises /\ llm_prompts # <<>>) =>
           /\ hyde_calls = (IF ShouldUseHyde THEN <<ExpectedFallback>> ELSE <<>>)
           /\ (~(ShouldUseHyde /\ hyde_outcome.raises)) =>
                 /\ Len(index_calls) = 1
                 /\ index_calls[1].query = (IF ShouldUseHyde THEN hyde_outcome.content
                                            ELSE ExpectedFallback)
                 /\ \A c \in DOMAIN rerank_calls : rerank_calls[c].query = ExpectedFallback

C22_Witness ==
    /\ op = "ask" /\ pc = "returned"
    /\ llm_outcome.raises /\ Len(llm_prompts) = 1
    /\ Len(chat_history) = 2 /\ ~ShouldUseHyde
    /\ Len(index_calls) = 1
    /\ index_calls[1].query =
          Run("q", 2) \o Space \o Run("r", 4) \o Space \o Run("t", 1) \o Space \o Run("u", 1)
          \o Space \o Run("v", 2) \o Space \o Run("u", 1) \o Space \o Run("v", 1)
    /\ corpus_size = 2 /\ result.source_documents = <<1, 2>>

\* ------------------------------------------------- claims: lazy handles
\* the positions of model_loads at which a model was loaded
SuccessfulLoads == {n \in DOMAIN model_loads : model_loads[n][2] = "loaded"}

\* C23: the model property tries the configured model first and the fallback
\* model only after that failed; once a model is loaded, model_name names the
\* model in effect; a rerank call raises exactly when both of its loads failed.
C23_ModelNameInEffect ==
    op = "calls" =>
        /\ \A n \in DOMAIN model_loads :
              model_loads[n][1] = FALLBACK_MODEL =>
                  n > 1 /\ model_loads[n - 1] = <<model_name, "failed">>
        /\ loaded_model # <<>> => model_name = loaded_model[1]
        /\ Cardinality({n \in DOMAIN model_log : model_log[n] = "raised"})
             = Cardinality({n \in DOMAIN model_loads :
                               model_loads[n] = <<FALLBACK_MODEL, "failed">>})

\* C24 as claimed: over any sequence of calls the Chroma handle and the
\* CrossEncoder model are each constructed at most once, and every call uses
\* that one handle.
C24_BuiltAtMostOnce ==
    op = "calls" =>
        /\ chroma_built <= 1
        /\ \A a, b \in DOMAIN handle_log : handle_log[a].handle = handle_log[b].handle
        /\ Cardinality(SuccessfulLoads) <= 1

\* C24 as amended: the calls between two collection deletions share one
\* Chroma handle, built by the first of them; delete_collection drops the
\* handle after using it, so the first call after a deletion builds a new
\* one. The CrossEncoder model is loaded at most once, and once it is loaded
\* every later rerank call scores with it; a rerank call that finds no model
\* loaded tries the loads again.
C24_BuiltOncePerCollection ==
    op = "calls" =>
        LET deletions == {n \in DOMAIN handle_log :
                              handle_log[n].method = "delete_collection"}
        IN  /\ \A n \in DOMAIN handle_log :
                  handle_log[n].handle = 1 + Cardinality({d \in deletions : d < n})
            /\ chroma_built = (IF handle_log = <<>> THEN 0
                               ELSE handle_log[Len(handle_log)].handle)
            /\ vectorstore_handle =
                   (IF handle_log = <<>> \/ Len(handle_log) \in deletions THEN <<>>
                    ELSE <<chroma_built>>)
            /\ Cardinality(SuccessfulLoads) <= 1
            /\ \A a, b \in DOMAIN model_log :
                  a < b /\ model_log[a] # "raised" => model_log[b] = model_log[a]

C24_Witness ==
    /\ op = "calls"
    /\ Len(handle_log) = 3
    /\ handle_log[1] = [method |-> "similarity_search", handle |-> 1]
    /\ handle_log[2] = [method |-> "delete_collection", handle |-> 1]
    /\ handle_log[3] = [method |-> "add_documents", handle |-> 2]
    /\ chroma_built = 2 /\ vectorstore_handle = <<2>>

\* ----------------------------------------------- claims: retrieval metrics
\* how many of the first at_k retrieved ids are relevant
RelevantInTopK ==
    Cardinality({p \in DOMAIN retrieved_ids : p <= at_k /\ retrieved_ids[p] \in relevant_ids})

\* C25: Precision@K is (relevant ids among the first K retrieved) / K for
\* K >= 1, also when fewer than K ids were retrieved, and 0 for K <= 0.
C25_PrecisionOverK ==
    (op = "precision_at_k" /\ pc = "returned") =>
        IF at_k <= 0 THEN result.num = 0
        ELSE result.num * at_k = RelevantInTopK * result.den

\* C26: Recall@K is (relevant ids in the top K) / (number of relevant ids), 0
\* when there is no relevant id or K <= 0, and lies between 0 and 1, repeated
\* retrieved ids included.
C26_RecallInUnitRange ==
    (op = "recall_at_k" /\ pc = "returned") =>
        /\ IF relevant_ids = {} \/ at_k <= 0 THEN result.num = 0
           ELSE result.num * Cardinality(relevant_ids) = RelevantInTopK * result.den
        /\ 0 <= result.num /\ result.num <= result.den

\* C27: for mrr, hit_rate and ndcg, compare reports (reranked - baseline) /
\* baseline * 100 to the nearest hundredth when baseline is not 0, exactly 0
\* when both are 0, and infinity when baseline is 0 and reranked is positive.
C27_Improvement ==
    (op = "compare" /\ pc = "returned") =>
        \A m \in MetricNames :
            LET b == baseline_eval[m]
                r == reranked_eval[m]
            IN  IF b.num = 0
                THEN IF r.num = 0
                     THEN result[m] = [inf |-> FALSE, hundredths |-> 0]
                     ELSE result[m].inf
                ELSE /\ ~result[m].inf
                     \* | hundredths / 100 - (r - b) / b * 100 | <= 1 / 200
                     /\ LET exact_num == 10000 * (r.num * b.den - b.num * r.den)
                            exact_den == r.den * b.num
                            gap == 2 * (result[m].hundredths * exact_den - exact_num)
                        IN  -exact_den <= gap /\ gap <= exact_den

C27_Witness ==
    /\ op = "compare" /\ pc = "returned"
    /\ baseline_eval = [m \in MetricNames |->
                           IF m = "mrr" THEN Zero
                           ELSE IF m = "hit_rate" THEN Zero ELSE Frac(1, 3)]
    /\ reranked_eval = [m \in MetricNames |->
                           IF m = "mrr" THEN Frac(1, 2)
                           ELSE IF m = "hit_rate" THEN Zero ELSE Frac(1, 2)]
    /\ result["mrr"].inf
    /\ result["hit_rate"] = [inf |-> FALSE, hundredths |-> 0]
    /\ result["ndcg"] = [inf |-> FALSE, hundredths |-> 5000]
\* ------------------------------------- claims: failures during ingestion
\* the successful writes among the attempts of batch b
SuccessesOf(b) == AttemptsOf(b) \ FailuresOf(b)

\* C28: when add_documents_with_retry has raised IndexingError at batch b, every
\* batch before b was written successfully exactly once and is still in the
\* index, batch b was attempted exactly max_retries + 1 times, all failing, and
\* no batch after b was submitted.
C28_RaiseKeepsEarlierBatches ==
    (op = "add_documents_with_retry" /\ pc = "raised") =>
        LET b == error.batch IN
        /\ error.type = "IndexingError"
        /\ b \in 0..(NumBatches - 1)
        /\ \A j \in 0..(b - 1) : Cardinality(SuccessesOf(j)) = 1
        /\ indexWrites = [j \in 1..b |->
                             PySlice(documents, (j - 1) * batch_size, j * batch_size)]
        /\ Cardinality(AttemptsOf(b)) = max_retries + 1
        /\ FailuresOf(b) = AttemptsOf(b)
        /\ \A j \in (b + 1)..(NumBatches - 1) : AttemptsOf(j) = {}

C28_Witness ==
    /\ op = "add_documents_with_retry" /\ pc = "raised"
    /\ NumBatches = 3 /\ error.batch = 1 /\ max_retries = 1
    /\ FailuresOf(0) # {}
    /\ Len(indexWrites) = 1
\* what holds in every state of add_documents_async about failed writes
FailedWriteAccounting ==
    op = "add_documents_async" =>
        /\ pc = "returned" => FailedAttempts = {}
        /\ (pc = "raised" /\ max_concurrent >= 0) =>
              \E k \in FailedAttempts : error = [type |-> attempts[k][2]]
        /\ (pc # "start" /\ max_concurrent >= 0) =>
              /\ semValue >= 0
              /\ Cardinality(Holding) + semValue = max_concurrent
              /\ \A t \in Tasks : taskState[t] \in {"done", "failed"} => t \notin Holding

\* every task is out of the semaphore, its batch counted or its write failed
AllTasksOut == \A t \in Tasks : taskState[t] \in {"done", "failed"}

\* C29: in add_documents_async, once a batch's write has raised the call raises
\* the error of a failed write and never returns a result; slots held plus
\* slots free equal max_concurrent in every state, the failing task having
\* given its slot back; and every other batch is still admitted and leaves the
\* semaphore.
C29_FailedWriteRaisesAndReleases ==
    /\ []FailedWriteAccounting
    /\ (op = "add_documents_async" /\ FailedAttempts # {}) ~> (pc = "raised" /\ AllTasksOut)

C29_Witness ==
    /\ op = "add_documents_async" /\ pc = "raised"
    /\ max_concurrent = 1 /\ Len(batches) = 3
    /\ taskState = <<"failed", "done", "done">>
    /\ semValue = 1
    /\ Len(attempts) = 3 /\ attempts[1][1] = 0
\* ------------------------------------------- claims: the attached reranker
\* the reranker attribute of the retriever
AttachedReranker == Reranker(reranker_attached, self_top_n, score_threshold)

\* C30: search_with_rerank on a retriever without a reranker constructs one
\* KoreanReranker() and attaches it (unless the constructor raised ImportError);
\* on a retriever with a reranker it constructs none and leaves the attribute
\* as it was. The reranker stays attached afterwards, and a later search() that
\* returns with the default use_reranker=True fetches 4 * k candidates and has
\* the reranker choose k of them.
C30_RerankerStaysAttached ==
    [][op = "search_with_rerank" =>
          /\ (pc = "start" /\ reranker_attached) =>
                /\ AttachedReranker' = AttachedReranker
                /\ rerankers_built' = rerankers_built
          /\ (pc = "start" /\ ~reranker_attached /\ error' # [type |-> "ImportError"]) =>
                /\ AttachedReranker' = Reranker(TRUE, DefaultTopN, DefaultScoreThreshold)
                /\ rerankers_built' = rerankers_built + 1
          /\ pc # "start" =>
                /\ AttachedReranker' = AttachedReranker
                /\ rerankers_built' = rerankers_built
                /\ (reranker_attached /\ pc' = "later_returned") =>
                      /\ Len(index_calls') = Len(index_calls) + 1
                      /\ Len(rerank_calls') = Len(rerank_calls) + 1
                      /\ LET ic == index_calls'[Len(index_calls')]
                             rc == rerank_calls'[Len(rerank_calls')]
                         IN  /\ ic.method = "similarity_search"
                             /\ ic.k = FetchFactor * rc.top_n
                             /\ rc.top_n \in 0..MaxK
                             /\ Len(rc.documents) = Min(ic.k, corpus_size)
                             /\ rc.query = question
      ]_vars

C30_Witness ==
    /\ op = "search_with_rerank" /\ pc = "later_returned"
    /\ rerankers_built = 1 /\ reranker_attached
    /\ k_arg = 1 /\ corpus_size = 3
    /\ Len(index_calls) = 2 /\ index_calls[2].k = 8
    /\ Len(rerank_calls) = 2 /\ rerank_calls[2].top_n = 2
    /\ rerank_calls[2].documents = <<1, 2, 3>>
    /\ Len(result) = 2

====
